---- MODULE Spec2Model ----
(***************************************************************************)
(* Model of the Apple School/Business Manager API scripts:                 *)
(*   AxM_OAuth.py                      token cache, JWT assertion, exchange *)
(*   AxM_GetDeviceInfo_FromList.py     per-item fetch (recursive retry)     *)
(*   AxM_GetAssignedServer_FromList.py per-item fetch (recursive retry)     *)
(*   AxM_GetAppleCareCoverage_FromList.py per-item fetch (recursive retry)  *)
(*   AxM_OrgDevices_To_CSV.py          paginated listing                    *)
(*   AxM_MdmServers_To_CSV.py          paginated listing                    *)
(*   AxM_MdmServerDevices_To_CSV.py    paginated listing                    *)
(*   AxM_AssignUnassign_MdmServers.py  activity submit / wait / poll / get  *)
(*                                                                         *)
(* Strings that the code inspects character by character (the scope) are    *)
(* sequences of one-character strings.  Time is integer seconds.            *)
(***************************************************************************)
EXTENDS Integers, Sequences, FiniteSets, TLC

VARIABLES
    \* ---- scope resolution (pure function, SpecScope) ----
    scopeIn,      \* the scope string handed to a get_token_and_* helper
    resolved,     \* the outcome of the helper's scope-to-URL branch
    \* ---- AxM_OAuth.py (SpecOAuth, and used by every run) ----
    cfg,          \* _load_config(): the five configuration values
    cacheFile,    \* AxM_Token.cache on disk
    now,          \* time.time(), integer seconds
    keyState,     \* the private key file: "ok", "unreadable", "unsignable"
    acq,          \* observation of the last get_access_token_and_scope() call
    loaded,       \* observation of the last _load_cached_token() call
    saved,        \* observation of the last _save_cached_token() call
    ticks,        \* number of clock advances made by the environment
    \* ---- one run of a script (Spec) ----
    script,       \* which of the seven scripts runs
    pc,           \* position of the run: start, item, list, post, wait, poll, download, ended
    exit,         \* how the run ended: "", ok, error (reported), crash (uncaught), no_id
    token_state,  \* access_token, base_url and the refreshed-once flag
    call,         \* locals and counters of the current request function call
    serials,      \* serialnumbers.txt: the input identifiers, in file order
    idx,          \* index of the serial being fetched
    results,      \* results / no_data / not_found / error collections of main
    pages,        \* the pages the server holds for the listing
    cursor,       \* the cursor local of fetch_all_* (0: None)
    devices,      \* the accumulated list of fetch_all_*
    activity,     \* what main knows of the submitted activity
    dl,           \* the artifact download: requests made, files written
    refreshes,    \* forced refreshes (force_new=True) made in this run
    nreq,         \* requests sent to the resource API in this run
    lastReq,      \* the last request sent to the resource API
    lastResp,     \* the response to it
    lastSleep,    \* the last sleep of the run
    \* ---- two runs sharing the cache file (SpecRace) ----
    racers        \* position and outcome of each run's get_token_and_url() call

oauthVars == <<cfg, cacheFile, now, keyState, acq, loaded, saved, ticks>>
scopeVars == <<scopeIn, resolved>>
runVars == <<script, pc, exit, token_state, call, serials, idx, results, pages,
             cursor, devices, activity, dl, refreshes, nreq,
             lastReq, lastResp, lastSleep, racers>>
vars == <<scopeIn, resolved, cfg, cacheFile, now, keyState, acq, loaded, saved,
          ticks, script, pc, exit, token_state, call, serials, idx, results,
          pages, cursor, devices, activity, dl, refreshes, nreq,
          lastReq, lastResp, lastSleep, racers>>

-----------------------------------------------------------------------------
(* Strings as sequences of characters                                      *)

UpperChars == <<"A","B","C","D","E","F","G","H","I","J","K","L","M",
                "N","O","P","Q","R","S","T","U","V","W","X","Y","Z">>
LowerChars == <<"a","b","c","d","e","f","g","h","i","j","k","l","m",
                "n","o","p","q","r","s","t","u","v","w","x","y","z">>

\* str.lower() on one character
LowerChar(c) ==
    IF \E i \in 1..26 : UpperChars[i] = c
    THEN LowerChars[CHOOSE i \in 1..26 : UpperChars[i] = c]
    ELSE c

\* str.lower()
Lower(s) == [i \in 1..Len(s) |-> LowerChar(s[i])]

\* Python's  sub in s  (substring test)
Contains(s, sub) ==
    \E i \in 0..(Len(s) - Len(sub)) :
        \A j \in 1..Len(sub) : s[i + j] = sub[j]

S_school     == <<"s","c","h","o","o","l">>
S_business   == <<"b","u","s","i","n","e","s","s">>
S_district   == <<"d","i","s","t","r","i","c","t">>
S_api        == <<".","a","p","i">>
S_enterprise == <<"e","n","t","e","r","p","r","i","s","e">>
S_sch        == <<"s","c","h">>
S_ool        == <<"o","o","l">>
S_SCHOOL     == <<"S","C","H","O","O","L">>
S_Business   == <<"B","u","s","i","n","e","s","s">>

BusinessApi        == S_business \o S_api
SchoolApi          == S_school \o S_api
SchoolDistrictApi  == S_school \o S_district \o S_api
Enterprise         == S_enterprise

\* A JSON null scope ("scope": null in the token response): not a string.
NoneScope    == <<"<None>">>
\* The key "scope" absent from the token response.
MissingScope == <<"<missing>">>

-----------------------------------------------------------------------------
(* Scope to base URL: the if/elif/else of every get_token_and_* helper      *)

Scripts == {"DeviceInfo", "AssignedServer", "AppleCare",
            "OrgDevices", "MdmServers", "MdmServerDevices", "AssignUnassign"}
ItemScripts == {"DeviceInfo", "AssignedServer", "AppleCare"}
ListScripts == {"OrgDevices", "MdmServers", "MdmServerDevices"}

SchoolHost   == "api-school.apple.com"
BusinessHost == "api-business.apple.com"
NoHost       == "<no host>"

\* The resource path each script appends to the host.
ResourcePath(sc) ==
    CASE sc \in {"DeviceInfo", "AssignedServer", "AppleCare", "OrgDevices"} -> "/v1/orgDevices"
      [] sc \in {"MdmServers", "MdmServerDevices"} -> "/v1/mdmServers"
      [] OTHER -> "/v1/orgDeviceActivities"

NoBase == [host |-> NoHost, path |-> ""]

\* s = scope.lower()  --  OrgDevices guards with (scope or ""); the others
\* call .lower() on whatever get_access_token_and_scope returned, which
\* raises AttributeError on None.
ScopeLowered(sc, scope) ==
    IF scope = NoneScope
    THEN IF sc = "OrgDevices" THEN [ok |-> TRUE, s |-> <<>>]
                              ELSE [ok |-> FALSE, s |-> <<>>]
    ELSE [ok |-> TRUE, s |-> Lower(scope)]

\* A mutation of ScopeToBase: "business" tested before "school".
ScopeToBase_BusinessFirst(sc, scope) ==
    LET lw == ScopeLowered(sc, scope) IN
    IF ~lw.ok THEN [ok |-> FALSE, err |-> "AttributeError", base |-> NoBase]
    ELSE IF Contains(lw.s, S_business)
         THEN [ok |-> TRUE, err |-> "", base |-> [host |-> BusinessHost, path |-> ResourcePath(sc)]]
    ELSE IF Contains(lw.s, S_school)
         THEN [ok |-> TRUE, err |-> "", base |-> [host |-> SchoolHost, path |-> ResourcePath(sc)]]
    ELSE [ok |-> FALSE, err |-> "InvalidScope", base |-> NoBase]

\* if "school" in s: ... elif "business" in s: ... else: raise RuntimeError
ScopeToBase(sc, scope) ==
    LET lw == ScopeLowered(sc, scope) IN
    IF ~lw.ok THEN [ok |-> FALSE, err |-> "AttributeError", base |-> NoBase]
    ELSE IF Contains(lw.s, S_school)
         THEN [ok |-> TRUE, err |-> "", base |-> [host |-> SchoolHost, path |-> ResourcePath(sc)]]
    ELSE IF Contains(lw.s, S_business)
         THEN [ok |-> TRUE, err |-> "", base |-> [host |-> BusinessHost, path |-> ResourcePath(sc)]]
    ELSE [ok |-> FALSE, err |-> "InvalidScope", base |-> NoBase]

-----------------------------------------------------------------------------
(* AxM_OAuth.py                                                             *)

ExpiryMargin   == 30    \* max(int(expires_in) - 30, 0)
TokenRetryWait == 60    \* time.sleep(60) after the first 429 of the token endpoint
StartTime      == 100   \* the clock value at which a model run starts

Max(a, b) == IF a >= b THEN a ELSE b

\* The key "access_token" absent from the token response (or null).
Missing  == "<missing>"
\* The key "expires_in" absent from the token response (or null).
NoExpiry == -1

\* A mutation of ConfigMissing: the Fernet key is not required.
ConfigMissing_FernetOptional(c) ==
    \/ c.CLIENT_ID = ""
    \/ c.KEY_ID = ""
    \/ c.PRIVATE_KEY_PATH = ""
    \/ c.SCOPE = <<>>

\* _load_config: every value is required ("not v" is true of None and "").
ConfigMissing(c) ==
    \/ c.CLIENT_ID = ""
    \/ c.KEY_ID = ""
    \/ c.PRIVATE_KEY_PATH = ""
    \/ c.SCOPE = <<>>
    \/ c.FERNET_KEY = ""

\* _fernet: Fernet(key) raises on a malformed key, rethrown as RuntimeError.
FernetOk(c) == c.FERNET_KEY # "bad"

\* The cache file.  kind: "absent" (no file), "garbage" (bytes that are not a
\* Fernet token of JSON), "missing_fields" (a JSON object lacking a required
\* key), "record" (a JSON object with the four required keys, encrypted
\* under key).
NoFile ==
    [kind |-> "absent", key |-> "", access_token |-> "", expires_at |-> 0,
     client_id |-> "", scope |-> <<>>]

\* The file just after open(CACHE_FILE, "wb"): it exists and holds no byte.
EmptyFile == [NoFile EXCEPT !.kind = "empty"]

\* What _load_cached_token returns: None, or the cache dictionary.
NoneRec ==
    [kind |-> "none", access_token |-> "", expires_at |-> 0,
     client_id |-> "", scope |-> <<>>]
RaiseRec ==
    [kind |-> "raise", access_token |-> "", expires_at |-> 0,
     client_id |-> "", scope |-> <<>>]
\* A TypeError raised outside the try block of _load_cached_token.
TypeErrorRec ==
    [kind |-> "raise_type", access_token |-> "", expires_at |-> 0,
     client_id |-> "", scope |-> <<>>]

\* A mutation of _load_cached_token: the expiry test dropped.
_load_cached_token_NoExpiryTest(c, f, t) ==
    IF f.kind = "absent" THEN NoneRec
    ELSE IF ~FernetOk(c) THEN RaiseRec
    ELSE IF f.kind \in {"garbage", "empty"} \/ f.key # c.FERNET_KEY THEN NoneRec
    ELSE IF f.kind = "json_scalar" THEN TypeErrorRec
    ELSE IF f.kind \in {"json_array", "missing_fields"} THEN NoneRec
    ELSE IF f.client_id # c.CLIENT_ID THEN NoneRec
    ELSE IF f.scope # c.SCOPE THEN NoneRec
    ELSE IF f.kind = "record_bad_expiry" THEN TypeErrorRec
    ELSE [kind |-> "record", access_token |-> f.access_token,
          expires_at |-> f.expires_at, client_id |-> f.client_id,
          scope |-> f.scope]

_load_cached_token(c, f, t) ==
    IF f.kind = "absent" THEN NoneRec                       \* not os.path.exists
    ELSE IF ~FernetOk(c) THEN RaiseRec                      \* _fernet(cfg) raises
    ELSE IF f.kind \in {"garbage", "empty"} \/ f.key # c.FERNET_KEY
    THEN NoneRec                                            \* decrypt / json.loads fails
    \* the file decrypts to valid JSON from here on; nothing below is in a try
    ELSE IF f.kind = "json_scalar" THEN TypeErrorRec        \* k in 5, k in None: TypeError
    ELSE IF f.kind \in {"json_array", "missing_fields"}     \* not all(k in cache ...)
    THEN NoneRec
    ELSE IF f.client_id # c.CLIENT_ID THEN NoneRec
    ELSE IF f.scope # c.SCOPE THEN NoneRec
    ELSE IF f.kind = "record_bad_expiry" THEN TypeErrorRec  \* now >= "text", now >= None
    ELSE IF t >= f.expires_at THEN NoneRec                  \* now >= cache["expires_at"]
    ELSE [kind |-> "record", access_token |-> f.access_token,
          expires_at |-> f.expires_at, client_id |-> f.client_id,
          scope |-> f.scope]

\* A mutation of _save_cached_token: the safety margin forgotten.
_save_cached_token_NoMargin(c, f, t, tr) ==
    IF tr.access_token \in {Missing, ""} \/ tr.expires_in = NoExpiry
    THEN [raised |-> FALSE, file |-> f]
    ELSE IF ~FernetOk(c) THEN [raised |-> TRUE, file |-> f]
    ELSE [raised |-> FALSE,
          file |-> [kind |-> "record", key |-> c.FERNET_KEY,
                    access_token |-> tr.access_token,
                    expires_at |-> t + tr.expires_in,
                    client_id |-> c.CLIENT_ID, scope |-> c.SCOPE]]

\* A mutation of _save_cached_token: twice the safety margin is subtracted.
_save_cached_token_DoubleMargin(c, f, t, tr) ==
    IF tr.access_token \in {Missing, ""} \/ tr.expires_in = NoExpiry
    THEN [raised |-> FALSE, file |-> f]
    ELSE IF ~FernetOk(c) THEN [raised |-> TRUE, file |-> f]
    ELSE [raised |-> FALSE,
          file |-> [kind |-> "record", key |-> c.FERNET_KEY,
                    access_token |-> tr.access_token,
                    expires_at |-> t + Max(tr.expires_in - 2 * ExpiryMargin, 0),
                    client_id |-> c.CLIENT_ID, scope |-> c.SCOPE]]

\* _save_cached_token(cfg, token_response) at time t, the file being f.
_save_cached_token(c, f, t, tr) ==
    IF tr.access_token \in {Missing, ""} \/ tr.expires_in = NoExpiry
    THEN [raised |-> FALSE, file |-> f]                     \* return, nothing written
    ELSE IF ~FernetOk(c) THEN [raised |-> TRUE, file |-> f] \* _fernet(cfg) raises
    ELSE [raised |-> FALSE,
          file |-> [kind |-> "record", key |-> c.FERNET_KEY,
                    access_token |-> tr.access_token,
                    expires_at |-> t + Max(tr.expires_in - ExpiryMargin, 0),
                    client_id |-> c.CLIENT_ID, scope |-> c.SCOPE]]

\* A response of the token endpoint: the HTTP status, whether the body parses
\* as JSON, and the fields of the JSON object.
NoBody ==
    [access_token |-> Missing, expires_in |-> NoExpiry, scope |-> MissingScope]

TokenResp(st, js, body) ==
    [status |-> st, json |-> js, access_token |-> body.access_token,
     expires_in |-> body.expires_in, scope |-> body.scope]

\* resp.raise_for_status(); return resp.json()
TokenRespOk(r) == r.status >= 200 /\ r.status < 400 /\ r.json

\* A mutation of _request_new_token: a second 429 is waited on and retried.
_request_new_token_ThreeAttempts(r1, r2) ==
    IF r1.status = 429
    THEN IF r2.status = 429
         THEN [ok |-> FALSE, err |-> "429 twice", posts |-> 3,
               slept |-> 2 * TokenRetryWait, token |-> r2]
         ELSE IF r2.status = 400
         THEN [ok |-> FALSE, err |-> "400", posts |-> 2,
               slept |-> TokenRetryWait, token |-> r2]
         ELSE IF TokenRespOk(r2)
         THEN [ok |-> TRUE, err |-> "", posts |-> 2,
               slept |-> TokenRetryWait, token |-> r2]
         ELSE [ok |-> FALSE, err |-> "token error", posts |-> 2,
               slept |-> TokenRetryWait, token |-> r2]
    ELSE IF r1.status = 400
    THEN [ok |-> FALSE, err |-> "400", posts |-> 1, slept |-> 0, token |-> r1]
    ELSE IF TokenRespOk(r1)
    THEN [ok |-> TRUE, err |-> "", posts |-> 1, slept |-> 0, token |-> r1]
    ELSE [ok |-> FALSE, err |-> "token error", posts |-> 1, slept |-> 0, token |-> r1]

\* A mutation of _request_new_token: a 400 to the first POST is retried.
_request_new_token_Retry400(r1, r2) ==
    IF r1.status \in {429, 400}
    THEN IF r2.status = 429
         THEN [ok |-> FALSE, err |-> "429 twice", posts |-> 2,
               slept |-> TokenRetryWait, token |-> r2]
         ELSE IF r2.status = 400
         THEN [ok |-> FALSE, err |-> "400", posts |-> 2,
               slept |-> TokenRetryWait, token |-> r2]
         ELSE IF TokenRespOk(r2)
         THEN [ok |-> TRUE, err |-> "", posts |-> 2,
               slept |-> TokenRetryWait, token |-> r2]
         ELSE [ok |-> FALSE, err |-> "token error", posts |-> 2,
               slept |-> TokenRetryWait, token |-> r2]
    ELSE IF TokenRespOk(r1)
    THEN [ok |-> TRUE, err |-> "", posts |-> 1, slept |-> 0, token |-> r1]
    ELSE [ok |-> FALSE, err |-> "token error", posts |-> 1, slept |-> 0, token |-> r1]

\* A mutation of _request_new_token: the 429 is never retried.
_request_new_token_NoRetry(r1, r2) ==
    IF r1.status = 429
    THEN [ok |-> FALSE, err |-> "429", posts |-> 1, slept |-> 0, token |-> r1]
    ELSE IF r1.status = 400
    THEN [ok |-> FALSE, err |-> "400", posts |-> 1, slept |-> 0, token |-> r1]
    ELSE IF TokenRespOk(r1)
    THEN [ok |-> TRUE, err |-> "", posts |-> 1, slept |-> 0, token |-> r1]
    ELSE [ok |-> FALSE, err |-> "token error", posts |-> 1, slept |-> 0, token |-> r1]

\* _request_new_token: for attempt in (1, 2), r1 and r2 being the endpoint's
\* answers to the first and to the second POST.
_request_new_token(r1, r2) ==
    IF r1.status = 429
    THEN \* attempt 1: sleep 60 and continue with attempt 2
         IF r2.status = 429
         THEN [ok |-> FALSE, err |-> "429 twice", posts |-> 2,
               slept |-> TokenRetryWait, token |-> r2]
         ELSE IF r2.status = 400
         THEN [ok |-> FALSE, err |-> "400", posts |-> 2,
               slept |-> TokenRetryWait, token |-> r2]
         ELSE IF TokenRespOk(r2)
         THEN [ok |-> TRUE, err |-> "", posts |-> 2,
               slept |-> TokenRetryWait, token |-> r2]
         ELSE [ok |-> FALSE, err |-> "token error", posts |-> 2,
               slept |-> TokenRetryWait, token |-> r2]
    ELSE IF r1.status = 400
    THEN [ok |-> FALSE, err |-> "400", posts |-> 1, slept |-> 0, token |-> r1]
    ELSE IF TokenRespOk(r1)
    THEN [ok |-> TRUE, err |-> "", posts |-> 1, slept |-> 0, token |-> r1]
    ELSE [ok |-> FALSE, err |-> "token error", posts |-> 1, slept |-> 0, token |-> r1]

\* The outcome of one get_access_token_and_scope() call.
AcqOutcome(okv, errv, tok, sc, f, t, posts, exch, keyReads, slept, cacheReads) ==
    [ok |-> okv, err |-> errv, access_token |-> tok, scope |-> sc,
     file |-> f, now |-> t, posts |-> posts, exchanges |-> exch,
     keyReads |-> keyReads, slept |-> slept, cacheReads |-> cacheReads]

\* A mutation of get_access_token_and_scope: the cache is never consulted.
get_access_token_and_scope_NoCache(c, f, t, key, r1, r2) ==
    IF ConfigMissing(c)
    THEN AcqOutcome(FALSE, "config", "", <<>>, f, t, 0, 0, 0, 0, 0)
    ELSE IF key # "ok"
    THEN AcqOutcome(FALSE, "key", "", <<>>, f, t, 0, 0, 1, 0, 1)
    ELSE LET rq == _request_new_token(r1, r2)
             t2 == t + rq.slept
             sv == _save_cached_token(c, f, t2, rq.token)
         IN  IF ~rq.ok
             THEN AcqOutcome(FALSE, rq.err, "", <<>>, f, t2, rq.posts, 1, 1, rq.slept, 1)
             ELSE IF sv.raised
             THEN AcqOutcome(FALSE, "fernet", "", <<>>, sv.file, t2, rq.posts, 1, 1, rq.slept, 1)
             ELSE IF rq.token.access_token = Missing
             THEN AcqOutcome(FALSE, "KeyError", "", <<>>, sv.file, t2, rq.posts, 1, 1, rq.slept, 1)
             ELSE AcqOutcome(TRUE, "", rq.token.access_token,
                             IF rq.token.scope = MissingScope THEN c.SCOPE
                                                              ELSE rq.token.scope,
                             sv.file, t2, rq.posts, 1, 1, rq.slept, 1)

\* get_access_token_and_scope() at time t, the cache file being f and the
\* private key file being in state key; r1, r2 are the token endpoint's answers.
get_access_token_and_scope(c, f, t, key, r1, r2) ==
    IF ConfigMissing(c)                                       \* _load_config raises
    THEN AcqOutcome(FALSE, "config", "", <<>>, f, t, 0, 0, 0, 0, 0)
    ELSE LET cache == _load_cached_token(c, f, t) IN
    IF cache.kind = "raise"
    THEN AcqOutcome(FALSE, "fernet", "", <<>>, f, t, 0, 0, 0, 0, 1)
    ELSE IF cache.kind = "raise_type"                         \* TypeError propagates
    THEN AcqOutcome(FALSE, "TypeError", "", <<>>, f, t, 0, 0, 0, 0, 1)
    ELSE IF cache.kind = "record"                             \* if cache: return
    THEN AcqOutcome(TRUE, "", cache.access_token, cache.scope, f, t, 0, 0, 0, 0, 1)
    ELSE IF key # "ok"                                        \* _build_client_assertion raises
    THEN AcqOutcome(FALSE, "key", "", <<>>, f, t, 0, 0, 1, 0, 1)
    ELSE LET rq == _request_new_token(r1, r2)
             t2 == t + rq.slept
             sv == _save_cached_token(c, f, t2, rq.token)
         IN  IF ~rq.ok
             THEN AcqOutcome(FALSE, rq.err, "", <<>>, f, t2, rq.posts, 1, 1, rq.slept, 1)
             ELSE IF sv.raised
             THEN AcqOutcome(FALSE, "fernet", "", <<>>, sv.file, t2, rq.posts, 1, 1, rq.slept, 1)
             ELSE IF rq.token.access_token = Missing          \* token["access_token"]: KeyError
             THEN AcqOutcome(FALSE, "KeyError", "", <<>>, sv.file, t2, rq.posts, 1, 1, rq.slept, 1)
             ELSE AcqOutcome(TRUE, "", rq.token.access_token,
                             IF rq.token.scope = MissingScope THEN c.SCOPE
                                                              ELSE rq.token.scope,
                             sv.file, t2, rq.posts, 1, 1, rq.slept, 1)

-----------------------------------------------------------------------------
(* What AxM_OAuth.py prints                                                 *)

\* resp.text of a token endpoint response: the body, with the access token
\* it holds, if any.
RespText(r) == [json |-> r.json, access_token |-> r.access_token]
NoText == [json |-> FALSE, access_token |-> Missing]

\* One printed line: its fixed text and what is interpolated into it (a
\* number of seconds, a scope, a response body).
Line(text) == [text |-> text, n |-> 0, scope |-> <<>>, body |-> NoText]

\* str(e) of the exception get_access_token_and_scope ends with, r being the
\* last answer of the token endpoint.
ErrorMessage(err, r) ==
    IF err = "config" THEN Line("Missing environment variables in AxM_Variables.env")
    ELSE IF err = "fernet" THEN Line("Invalid Fernet key in AXM_FERNET_KEY")
    ELSE IF err = "key" THEN Line("Failed to load private key")
    ELSE IF err = "429 twice" THEN Line("Apple returned HTTP 429 twice.")
    ELSE IF err = "400" THEN Line("HTTP 400 from Apple.")
    ELSE IF err = "token error"
    THEN [Line("Apple token error: ") EXCEPT !.body = RespText(r)]
    ELSE IF err = "KeyError" THEN Line("'access_token'")
    ELSE Line(err)

\* A mutation of oauth_prints: the new token is shown when it is generated.
oauth_prints_ShowToken(c, f, t, key, r1, r2) ==
    IF ConfigMissing(c) THEN <<>>
    ELSE LET cache == _load_cached_token(c, f, t)
             rq == _request_new_token(r1, r2)
         IN  IF cache.kind \in {"raise", "raise_type"} THEN <<>>
             ELSE IF cache.kind = "record"
             THEN <<[Line("INFO: Using existing cached token") EXCEPT
                        !.n = cache.expires_at - t]>>
             ELSE <<Line("INFO: Cached token not found or expired.")>>
                  \o (IF key # "ok" THEN <<>>
                      ELSE IF rq.ok
                      THEN <<[Line("INFO: New token generated: ") EXCEPT
                                 !.body = RespText(rq.token)]>>
                      ELSE <<>>)

\* The lines get_access_token_and_scope and _request_new_token print during
\* one call, in order.
oauth_prints(c, f, t, key, r1, r2) ==
    IF ConfigMissing(c) THEN <<>>
    ELSE LET cache == _load_cached_token(c, f, t)
             rq == _request_new_token(r1, r2)
             sv == _save_cached_token(c, f, t + rq.slept, rq.token)
         IN  IF cache.kind \in {"raise", "raise_type"} THEN <<>>
             ELSE IF cache.kind = "record"
             THEN <<[Line("INFO: Using existing cached token") EXCEPT
                        !.n = cache.expires_at - t]>>
             ELSE <<Line("INFO: Cached token not found or expired.")>>
                  \o (IF key # "ok" THEN <<>>
                      ELSE (IF r1.status = 429
                            THEN <<Line("INFO: Apple returned 429, waiting 60 seconds")>>
                            ELSE <<>>)
                           \o (IF rq.ok /\ ~sv.raised
                               THEN <<Line("INFO: New token generated and cached securely.")>>
                               ELSE <<>>))

\* AxM_OAuth.py run as a script: the lines of the call, then the two lines
\* of a success or the line of the error.
main_prints(c, f, t, key, r1, r2) ==
    LET o == get_access_token_and_scope(c, f, t, key, r1, r2)
        last == IF r1.status = 429 THEN r2 ELSE r1
    IN  oauth_prints(c, f, t, key, r1, r2)
          \o (IF o.ok
              THEN <<Line("INFO: Token retrieval successful. (Token not displayed)"),
                     [Line("Scope:") EXCEPT !.scope = o.scope]>>
              ELSE <<[ErrorMessage(o.err, last) EXCEPT !.text = "ERROR: " \o @]>>)

-----------------------------------------------------------------------------
(* The get_token_and_* helper of every script                               *)

\* A mutation of get_token_and_url: force_new does not delete the cache file.
get_token_and_url_NoDelete(sc, force_new, rmOk, c, f, t, key, r1, r2) ==
    LET a == get_access_token_and_scope(c, f, t, key, r1, r2)
        m == ScopeToBase(sc, a.scope)
    IN  IF ~a.ok
        THEN [ok |-> FALSE, err |-> a.err, access_token |-> "", base |-> NoBase,
              file |-> a.file, now |-> a.now, posts |-> a.posts,
              exchanges |-> a.exchanges, scope |-> a.scope,
              keyReads |-> a.keyReads, cacheReads |-> a.cacheReads,
              slept |-> a.slept]
        ELSE IF ~m.ok
        THEN [ok |-> FALSE, err |-> m.err, access_token |-> "", base |-> NoBase,
              file |-> a.file, now |-> a.now, posts |-> a.posts,
              exchanges |-> a.exchanges, scope |-> a.scope,
              keyReads |-> a.keyReads, cacheReads |-> a.cacheReads,
              slept |-> a.slept]
        ELSE [ok |-> TRUE, err |-> "", access_token |-> a.access_token,
              base |-> m.base, file |-> a.file, now |-> a.now,
              posts |-> a.posts, exchanges |-> a.exchanges, scope |-> a.scope,
              keyReads |-> a.keyReads, cacheReads |-> a.cacheReads,
              slept |-> a.slept]

\* What the helper returns or raises, a being the outcome of
\* get_access_token_and_scope and m the base URL the scope maps to.
TokenAndUrl(a, m) ==
    IF ~a.ok
    THEN [ok |-> FALSE, err |-> a.err, access_token |-> "", base |-> NoBase,
          file |-> a.file, now |-> a.now, posts |-> a.posts,
          exchanges |-> a.exchanges, scope |-> a.scope,
          keyReads |-> a.keyReads, cacheReads |-> a.cacheReads,
          slept |-> a.slept]
    ELSE IF ~m.ok
    THEN [ok |-> FALSE, err |-> m.err, access_token |-> "", base |-> NoBase,
          file |-> a.file, now |-> a.now, posts |-> a.posts,
          exchanges |-> a.exchanges, scope |-> a.scope,
          keyReads |-> a.keyReads, cacheReads |-> a.cacheReads,
          slept |-> a.slept]
    ELSE [ok |-> TRUE, err |-> "", access_token |-> a.access_token,
          base |-> m.base, file |-> a.file, now |-> a.now,
          posts |-> a.posts, exchanges |-> a.exchanges, scope |-> a.scope,
          keyReads |-> a.keyReads, cacheReads |-> a.cacheReads,
          slept |-> a.slept]

\* get_token_and_url / get_token_and_base_url / get_token_and_mdm_url /
\* get_token_and_mdm_base_url / get_token_and_activities_url of script sc.
\* rmOk: os.remove succeeds (an OSError is printed as a warning and ignored).
get_token_and_url(sc, force_new, rmOk, c, f, t, key, r1, r2) ==
    LET f1 == IF force_new /\ f.kind # "absent" /\ rmOk THEN NoFile ELSE f
        a  == get_access_token_and_scope(c, f1, t, key, r1, r2)
    IN  TokenAndUrl(a, ScopeToBase(sc, a.scope))

-----------------------------------------------------------------------------
(* handle_429: the Retry-After header                                       *)

DefaultWait == 60   \* time.sleep(60) when Retry-After is missing or invalid

\* response.headers.get("Retry-After") is None
HeaderAbsent == <<"<absent>">>

DigitChars == <<"0","1","2","3","4","5","6","7","8","9">>
IsDigit(c) == \E i \in 1..10 : DigitChars[i] = c
DigitVal(c) == (CHOOSE i \in 1..10 : DigitChars[i] = c) - 1

RECURSIVE DigitsVal(_)
DigitsVal(s) ==
    IF s = <<>> THEN 0
    ELSE DigitsVal(SubSeq(s, 1, Len(s) - 1)) * 10 + DigitVal(s[Len(s)])

RECURSIVE StripLeft(_)
StripLeft(s) == IF s # <<>> /\ Head(s) = " " THEN StripLeft(Tail(s)) ELSE s
RECURSIVE StripRight(_)
StripRight(s) ==
    IF s # <<>> /\ s[Len(s)] = " " THEN StripRight(SubSeq(s, 1, Len(s) - 1)) ELSE s
Strip(s) == StripRight(StripLeft(s))

\* The digits of an integer literal, its sign removed.
Unsigned(s) ==
    LET t == Strip(s) IN
    IF t # <<>> /\ t[1] \in {"+", "-"} THEN Tail(t) ELSE t

\* int(s) does not raise ValueError
IsIntText(s) ==
    LET u == Unsigned(s) IN u # <<>> /\ \A i \in 1..Len(u) : IsDigit(u[i])

\* int(s)
IntOf(s) ==
    LET t == Strip(s) IN
    IF t[1] = "-" THEN 0 - DigitsVal(Unsigned(s)) ELSE DigitsVal(Unsigned(s))

\* The seconds handle_429 sleeps for a Retry-After header h.  time.sleep of a
\* negative number raises ValueError inside the try block, which the
\* except ValueError clause swallows: the default wait follows.
handle_429(h) ==
    IF h = HeaderAbsent \/ h = <<>> THEN DefaultWait
    ELSE IF IsIntText(h) /\ IntOf(h) >= 0 THEN IntOf(h)
    ELSE DefaultWait

\* The seconds script sc sleeps on a 429: fetch_all_devices of
\* AxM_OrgDevices_To_CSV.py sleeps 60 seconds and never reads the header.
Sleep429(sc, h) == IF sc = "OrgDevices" THEN DefaultWait ELSE handle_429(h)

-----------------------------------------------------------------------------
(* Bounds and input sets                                                    *)

MaxFrags == 3     \* a scope input is made of at most this many fragments
MaxTicks == 2     \* the environment advances the clock at most this often
MaxElapsed == 120 \* no sleep is started that would end later than StartTime + MaxElapsed

Frags == {S_school, S_business, S_district, S_api, S_enterprise,
          S_sch, S_ool, S_SCHOOL}

RECURSIVE Flatten(_)
Flatten(fs) == IF fs = <<>> THEN <<>> ELSE Head(fs) \o Flatten(Tail(fs))

ScopeInputs ==
    {Flatten(fs) : fs \in UNION {[1..n -> Frags] : n \in 0..MaxFrags}}
        \cup {NoneScope}

TickSteps == {1, 30}

Configs ==
    {[CLIENT_ID |-> "client-A", KEY_ID |-> "kid", PRIVATE_KEY_PATH |-> "key.pem",
      SCOPE |-> s, FERNET_KEY |-> "k1"] : s \in {BusinessApi, SchoolApi}}

\* A scope that names neither service.
EnterpriseApi == S_enterprise \o S_api

\* Configurations _load_config refuses: one of the five values is missing
\* from AxM_Variables.env or empty ("" stands for both, "not v" holding of each).
IncompleteConfigs ==
    LET full == [CLIENT_ID |-> "client-A", KEY_ID |-> "kid",
                 PRIVATE_KEY_PATH |-> "key.pem", SCOPE |-> BusinessApi,
                 FERNET_KEY |-> "k1"]
    IN  {[full EXCEPT !.CLIENT_ID = ""], [full EXCEPT !.KEY_ID = ""],
         [full EXCEPT !.PRIVATE_KEY_PATH = ""], [full EXCEPT !.SCOPE = <<>>],
         [full EXCEPT !.FERNET_KEY = ""]}

\* Complete configurations whose scope no script recognizes.
UnrecognizedScopeConfigs ==
    {[CLIENT_ID |-> "client-A", KEY_ID |-> "kid", PRIVATE_KEY_PATH |-> "key.pem",
      SCOPE |-> s, FERNET_KEY |-> "k1"] : s \in {EnterpriseApi, S_api}}

TokenBodies ==
    [access_token : {Missing, "T1", "T2"},
     expires_in   : {NoExpiry, 10, 30, 31, 90},
     scope        : {MissingScope, BusinessApi, SchoolApi}]

TokenResponses ==
    {TokenResp(200, TRUE, b) : b \in TokenBodies}
        \cup {TokenResp(200, FALSE, NoBody), TokenResp(429, FALSE, NoBody),
              TokenResp(400, TRUE, NoBody), TokenResp(500, FALSE, NoBody)}

\* The second POST is made only after a 429: otherwise its answer is not drawn.
SecondResponses(r1) == IF r1.status = 429 THEN TokenResponses ELSE {r1}

InitFiles ==
    {NoFile,
     [NoFile EXCEPT !.kind = "garbage"],
     [NoFile EXCEPT !.kind = "missing_fields", !.key = "k1"],
     \* valid JSON that is not an object: a number, null or true ...
     [NoFile EXCEPT !.kind = "json_scalar", !.key = "k1"],
     \* ... or a list or a string
     [NoFile EXCEPT !.kind = "json_array", !.key = "k1"]}
    \cup
    \* an object with all four keys whose expires_at is a string or null
    [kind : {"record_bad_expiry"}, key : {"k1"}, access_token : {"T0"},
     expires_at : {0}, client_id : {"client-A", "client-B"},
     scope : {BusinessApi, SchoolApi}]
    \cup
    [kind : {"record"}, key : {"k1", "k2"}, access_token : {"T0"},
     expires_at : {StartTime - 1, StartTime, StartTime + 1, StartTime + 50},
     client_id : {"client-A", "client-B"}, scope : {BusinessApi, SchoolApi}]

NoResolved == [script |-> "", r |-> [ok |-> FALSE, err |-> "", base |-> NoBase]]

NoAcq ==
    [called |-> FALSE, pre_file |-> NoFile, pre_now |-> 0, r1status |-> 0,
     r2status |-> 0, expires_in |-> NoExpiry, printed |-> <<>>,
     ok |-> FALSE, err |-> "", access_token |-> "", scope |-> <<>>,
     posts |-> 0, exchanges |-> 0, keyReads |-> 0, slept |-> 0, cacheReads |-> 0]
NoLoad == [called |-> FALSE, at |-> 0, file |-> NoFile, result |-> NoneRec]
NoSave == [called |-> FALSE, at |-> 0, tr |-> TokenResp(0, FALSE, NoBody),
           raised |-> FALSE, pre_file |-> NoFile]

NoTokenState == [access_token |-> "", base_url |-> NoBase, refreshed_once |-> FALSE]

\* What the current call observed of its forced refresh
\* (get_token_and_*(force_new=True)): the token the cache file held when it
\* was called, whether it returned, the token it returned and the number of
\* token exchanges it made.
NoForced == [done |-> FALSE, pre_token |-> "", ok |-> FALSE, token |-> "",
             exchanges |-> 0]

Forced(f, g) ==
    [done |-> TRUE,
     pre_token |-> IF f.kind = "record" THEN f.access_token ELSE "",
     ok |-> g.ok, token |-> g.access_token, exchanges |-> g.exchanges]

\* The locals of a request function at its entry: the URL and the
\* Authorization header are computed from token_state before the first request.
NewCall(ts) ==
    [hdr_token |-> ts.access_token, url_base |-> ts.base_url,
     tried_429 |-> FALSE, tried_refresh |-> FALSE,
     requests |-> 0, refreshes |-> 0, n401 |-> 0, n429 |-> 0,
     flagAtStart |-> ts.refreshed_once, outcome |-> "", forced |-> NoForced]

Serials == {"s1", "s2"}

NoResults ==
    [data |-> [x \in Serials |-> "unset"], no_data |-> <<>>,
     not_found |-> <<>>, errors |-> [x \in Serials |-> "unset"]]

NoUrl == "<None>"
NoActivity ==
    [id |-> "", submitted |-> FALSE, polled |-> FALSE, status |-> "",
     url |-> NoUrl, waited |-> 0, submitted_at |-> 0, polls |-> 0, poll_at |-> 0]
NoDl == [requests |-> 0, files |-> 0, auth |-> FALSE, name |-> "", raised |-> FALSE]
NoReq == [token |-> "", base |-> NoBase, target |-> "", cursor |-> 0, ids |-> <<>>]
NoResp == [status |-> 0, retry_after |-> HeaderAbsent, data |-> "absent"]
NoSleep == [kind |-> "", seconds |-> 0]

\* The runs that share the cache file, and the locals of one of them: where
\* it is in get_token_and_url(), whether it was called with force_new, the
\* exception it ended with, the token it returned, the exchanges it made, the
\* record it is about to write and the statements whose exception was caught.
Racers == {1, 2}
NoRacer == [pc |-> "idle", force |-> FALSE, err |-> "", token |-> "",
            exchanges |-> 0, pending |-> NoFile, caught |-> {}]
NoRacers == [p \in Racers |-> NoRacer]

RunIdle ==
    /\ script = "" /\ pc = "idle" /\ exit = ""
    /\ token_state = NoTokenState /\ call = NewCall(NoTokenState)
    /\ serials = <<>> /\ idx = 0 /\ results = NoResults
    /\ pages = <<>> /\ cursor = 0 /\ devices = <<>>
    /\ activity = NoActivity /\ dl = NoDl
    /\ refreshes = 0 /\ nreq = 0
    /\ lastReq = NoReq /\ lastResp = NoResp /\ lastSleep = NoSleep
    /\ racers = NoRacers

ScopeIdle == scopeIn = <<>> /\ resolved = NoResolved
OAuthIdle ==
    /\ cfg \in Configs /\ cfg.SCOPE = BusinessApi
    /\ cacheFile = NoFile /\ now = StartTime /\ keyState = "ok"
    /\ acq = NoAcq /\ loaded = NoLoad /\ saved = NoSave /\ ticks = 0

-----------------------------------------------------------------------------
(* SpecScope: the scope-to-URL branch applied to bounded scope strings      *)

InitScope ==
    /\ scopeIn \in ScopeInputs
    /\ resolved = NoResolved
    /\ OAuthIdle
    /\ RunIdle

\* The scope branch of script sc's get_token_and_* helper on scopeIn.
ResolveScope(sc) ==
    /\ resolved' = [script |-> sc, r |-> ScopeToBase(sc, scopeIn)]
    /\ UNCHANGED <<scopeIn, oauthVars, runVars>>

NextScope == \E sc \in Scripts : ResolveScope(sc)

SpecScope == InitScope /\ [][NextScope]_vars

-----------------------------------------------------------------------------
(* SpecOAuth: the operations of AxM_OAuth.py on a cache file and a clock    *)

InitOAuth ==
    /\ ScopeIdle
    /\ RunIdle
    /\ cfg \in Configs \cup IncompleteConfigs
    /\ cacheFile \in InitFiles
    /\ now = StartTime
    /\ keyState \in {"ok", "unreadable"}
    /\ acq = NoAcq /\ loaded = NoLoad /\ saved = NoSave
    /\ ticks = 0

\* AxM_OAuth.py run as a script (__main__): one get_access_token_and_scope()
\* call, the token endpoint answering r1 to the first POST and r2 to the second.
Acquire ==
    \E r1 \in TokenResponses :
      \E r2 \in SecondResponses(r1) :
        LET o == get_access_token_and_scope(cfg, cacheFile, now, keyState, r1, r2) IN
        /\ ~acq.called
        /\ o.now <= StartTime + MaxElapsed
        /\ cacheFile' = o.file
        /\ now' = o.now
        /\ acq' = [called |-> TRUE, pre_file |-> cacheFile, pre_now |-> now,
                   r1status |-> r1.status, r2status |-> r2.status,
                   expires_in |-> IF o.exchanges = 0 THEN NoExpiry
                                  ELSE IF r1.status = 429 THEN r2.expires_in
                                  ELSE r1.expires_in,
                   printed |-> main_prints(cfg, cacheFile, now, keyState, r1, r2),
                   ok |-> o.ok, err |-> o.err,
                   access_token |-> o.access_token, scope |-> o.scope,
                   posts |-> o.posts, exchanges |-> o.exchanges,
                   keyReads |-> o.keyReads, slept |-> o.slept,
                   cacheReads |-> o.cacheReads]
        /\ UNCHANGED <<scopeVars, cfg, keyState, ticks, loaded, saved, runVars>>

\* Time passes between two calls.
Tick ==
    \E d \in TickSteps :
        /\ ticks < MaxTicks
        /\ now + d <= StartTime + MaxElapsed
        /\ now' = now + d
        /\ ticks' = ticks + 1
        /\ UNCHANGED <<scopeVars, cfg, cacheFile, keyState, acq, loaded, saved, runVars>>

NextOAuth == Acquire \/ Tick

SpecOAuth == InitOAuth /\ [][NextOAuth]_vars

-----------------------------------------------------------------------------
(* SpecCache: _save_cached_token and _load_cached_token on a cache file     *)

\* One call of _save_cached_token(cfg, tr), tr the parsed token response.
SaveCachedToken ==
    \E tr \in TokenResponses :
        LET sv == _save_cached_token(cfg, cacheFile, now, tr) IN
        /\ ~saved.called /\ ~loaded.called
        /\ TokenRespOk(tr)
        /\ cacheFile' = sv.file
        /\ saved' = [called |-> TRUE, at |-> now, tr |-> tr,
                     raised |-> sv.raised, pre_file |-> cacheFile]
        /\ UNCHANGED <<scopeVars, cfg, now, keyState, ticks, acq, loaded, runVars>>

\* One call of _load_cached_token(cfg).
LoadCachedToken ==
    /\ ~loaded.called
    /\ loaded' = [called |-> TRUE, at |-> now, file |-> cacheFile,
                  result |-> _load_cached_token(cfg, cacheFile, now)]
    /\ UNCHANGED <<scopeVars, cfg, cacheFile, now, keyState, ticks, acq, saved, runVars>>

NextCache == SaveCachedToken \/ LoadCachedToken \/ Tick

\* _load_cached_token and _save_cached_token are handed what _load_config returned.
InitCache == InitOAuth /\ keyState = "ok" /\ ~ConfigMissing(cfg)

SpecCache == InitCache /\ [][NextCache]_vars

\* Two runs sharing AxM_Token.cache: one is inside _save_cached_token, the
\* other calls _load_cached_token.  The writer's "with open(CACHE_FILE, 'wb')
\* as fh: fh.write(encrypted)" is two steps on the file: open() truncates it,
\* and the buffered payload reaches it when the block is left.
OpenCacheFile ==
    \E tr \in TokenResponses :
        LET sv == _save_cached_token(cfg, cacheFile, now, tr) IN
        /\ ~saved.called
        /\ TokenRespOk(tr)
        \* sv.file differs from the file exactly when the function gets to open()
        /\ cacheFile' = (IF sv.file = cacheFile THEN cacheFile ELSE EmptyFile)
        /\ saved' = [called |-> TRUE, at |-> now, tr |-> tr,
                     raised |-> sv.raised, pre_file |-> cacheFile]
        /\ UNCHANGED <<scopeVars, cfg, now, keyState, ticks, acq, loaded, runVars>>

\* The record the writer computed before it opened the file.
PendingRecord == _save_cached_token(cfg, saved.pre_file, saved.at, saved.tr).file

WriteCacheFile ==
    /\ saved.called
    /\ cacheFile = EmptyFile
    /\ cacheFile' = PendingRecord
    /\ UNCHANGED <<scopeVars, cfg, now, keyState, ticks, acq, loaded, saved, runVars>>

\* The file holds a complete record when the two runs start.
InitShared == InitCache /\ cacheFile.kind = "record"

NextShared == OpenCacheFile \/ WriteCacheFile \/ LoadCachedToken \/ Tick

SpecShared == InitShared /\ [][NextShared]_vars

-----------------------------------------------------------------------------
(* The request functions of the seven scripts                               *)

\* A response of the resource API as the request functions read it: the
\* status, the Retry-After header, whether the body parses as JSON, and the
\* fields of the body that the scripts look at.
ApiResp(st, ra, js, data, id, actStatus, url) ==
    [status |-> st, retry_after |-> ra, json |-> js, data |-> data,
     id |-> id, act_status |-> actStatus, url |-> url]

\* The status standing for no response at all: session.get / session.post
\* raised a transport exception (requests.ConnectionError, Timeout, ...).
TransportError == -1

\* The statuses other than 429 that the request functions may be answered
\* instead of a success.
ErrorStatuses == {400, 401, 403, 404, 409, 422, 500}

\* response.ok
RespOk(r) == r.status < 400

\* A mutation of fetch_item: a 401 is always answered by a forced refresh.
fetch_item_AlwaysRefresh(sc, refreshed_once, r) ==
    IF r.status = 429 THEN "sleep"
    ELSE IF r.status = 401 THEN "refresh"
    ELSE IF r.status = 404 THEN "NOT_FOUND"
    ELSE IF ~RespOk(r) \/ ~r.json THEN "ERROR"
    ELSE IF r.data = "null" THEN (IF sc = "DeviceInfo" THEN "NONE" ELSE "raise")
    ELSE "OK"

\* A mutation of fetch_item: an empty coverage list is reported as a 404.
fetch_item_EmptyAsNotFound(sc, refreshed_once, r) ==
    IF r.status = TransportError THEN "raise"
    ELSE IF r.status = 429 THEN "sleep"
    ELSE IF r.status = 401
    THEN IF ~refreshed_once THEN "refresh" ELSE "ERROR"
    ELSE IF r.status = 404 THEN "NOT_FOUND"
    ELSE IF ~RespOk(r) THEN "ERROR"
    ELSE IF ~r.json THEN "ERROR"
    ELSE IF r.data = "null" THEN (IF sc = "DeviceInfo" THEN "NONE" ELSE "raise")
    ELSE IF sc = "AssignedServer" /\ r.data # "full" THEN "ERROR"
    ELSE IF sc = "AppleCare" /\ r.data # "full" THEN "NOT_FOUND"
    ELSE "OK"

\* fetch_device_info / fetch_assigned_server / fetch_applecare_coverage:
\* what the function does with the response r, the run-wide flag
\* token_state["refreshed_once"] being refreshed_once.  "sleep" and "refresh"
\* re-invoke the function; the other values are the error_msg returned
\* ("OK" standing for None).
fetch_item(sc, refreshed_once, r) ==
    IF r.status = TransportError THEN "raise"   \* session.get is in no try block
    ELSE IF r.status = 429 THEN "sleep"
    ELSE IF r.status = 401
    THEN IF ~refreshed_once THEN "refresh" ELSE "ERROR"
    ELSE IF r.status \in {403, 400} THEN "ERROR"
    ELSE IF r.status = 404 THEN "NOT_FOUND"
    ELSE IF ~RespOk(r) THEN "ERROR"
    ELSE IF ~r.json THEN "ERROR"
    \* the body is the JSON value null: fetch_device_info returns (None, None);
    \* payload.get raises AttributeError in the other two
    ELSE IF r.data = "null" THEN (IF sc = "DeviceInfo" THEN "NONE" ELSE "raise")
    ELSE IF sc = "AssignedServer" /\ r.data # "full" THEN "ERROR"
    ELSE IF sc = "AppleCare" /\ r.data # "full" THEN "NO_DATA"
    ELSE "OK"

\* A mutation of fetch_page: a 429 ends the listing with an error.
fetch_page_GiveUpOn429(sc, refreshed, r) ==
    IF r.status = TransportError THEN "raise"
    ELSE IF r.status = 429 THEN "raise"
    ELSE IF r.status = 401
    THEN IF ~refreshed THEN "refresh" ELSE "raise"
    ELSE IF ~RespOk(r) THEN "raise"
    ELSE IF ~r.json THEN "raise"
    ELSE "page"

\* fetch_all_devices / fetch_all_mdm_servers /
\* fetch_all_devices_for_mdm_server: what one turn of the while loop does
\* with the response r, the local token_refreshed_once being refreshed.
fetch_page(sc, refreshed, r) ==
    IF r.status = TransportError THEN "raise"
    ELSE IF r.status = 429 THEN "sleep"
    ELSE IF r.status = 401
    THEN IF ~refreshed THEN "refresh" ELSE "raise"
    ELSE IF ~RespOk(r) THEN "raise"
    ELSE IF ~r.json THEN "raise"
    ELSE "page"

\* A mutation of post_org_device_activity: the 429 retry is not capped.
post_org_device_activity_Uncapped(tried_429, tried_refresh, r) ==
    IF r.status = 429 THEN "sleep"
    ELSE IF r.status = 401 /\ ~tried_refresh THEN "refresh"
    ELSE IF r.status # 201 THEN "raise"
    ELSE IF ~r.json THEN "raise"
    ELSE "return"

\* post_org_device_activity: one turn of its while loop.
post_org_device_activity(tried_429, tried_refresh, r) ==
    IF r.status = TransportError THEN "raise"
    ELSE IF r.status = 429 /\ ~tried_429 THEN "sleep"
    ELSE IF r.status = 401 /\ ~tried_refresh THEN "refresh"
    ELSE IF r.status \in {400, 403, 409, 422} THEN "raise"
    ELSE IF r.status # 201 THEN "raise"
    ELSE IF ~r.json THEN "raise"
    ELSE "return"

\* A mutation of get_activity_status: a 404 is waited out and asked again.
get_activity_status_Retry404(tried_429, tried_refresh, r) ==
    IF r.status = TransportError THEN "raise"
    ELSE IF r.status \in {429, 404} /\ ~tried_429 THEN "sleep"
    ELSE IF r.status = 401 /\ ~tried_refresh THEN "refresh"
    ELSE IF ~RespOk(r) THEN "raise"
    ELSE IF ~r.json THEN "raise"
    ELSE "return"

\* A mutation of get_activity_status: every 401 regenerates the token.
get_activity_status_RefreshAgain(tried_429, tried_refresh, r) ==
    IF r.status = TransportError THEN "raise"
    ELSE IF r.status = 429 /\ ~tried_429 THEN "sleep"
    ELSE IF r.status = 401 THEN "refresh"
    ELSE IF r.status \in {404, 403, 400} THEN "raise"
    ELSE IF ~RespOk(r) THEN "raise"
    ELSE IF ~r.json THEN "raise"
    ELSE "return"

\* get_activity_status: one turn of its while loop.
get_activity_status(tried_429, tried_refresh, r) ==
    IF r.status = TransportError THEN "raise"
    ELSE IF r.status = 429 /\ ~tried_429 THEN "sleep"
    ELSE IF r.status = 401 /\ ~tried_refresh THEN "refresh"
    ELSE IF r.status \in {404, 403, 400} THEN "raise"
    ELSE IF ~RespOk(r) THEN "raise"
    ELSE IF ~r.json THEN "raise"
    ELSE "return"

\* A mutation of Extend: the page is put in front of the list.
Extend_Prepend(list, page) == page \o list

\* devices.extend(page_devices) / servers.extend(page_servers)
Extend(list, page) == list \o page

\* A mutation of ShouldDownload: the status is not looked at.
ShouldDownload_AnyStatus(cur_status, download_url) ==
    download_url \notin {NoUrl, ""}

\* if cur_status == "COMPLETED" and download_url:
ShouldDownload(cur_status, download_url) ==
    cur_status = "COMPLETED" /\ download_url \notin {NoUrl, ""}

\* A mutation of RecordItem: the lists keep only the serial recorded last.
RecordItem_LastOnly(res, serial, d) ==
    [data      |-> [res.data EXCEPT ![serial] = IF d = "OK" THEN "payload" ELSE "None"],
     no_data   |-> IF d = "NO_DATA" THEN <<serial>> ELSE res.no_data,
     not_found |-> IF d = "NOT_FOUND" THEN <<serial>> ELSE res.not_found,
     errors    |-> IF d = "ERROR"
                   THEN [x \in Serials |-> IF x = serial THEN "msg" ELSE "unset"]
                   ELSE res.errors]

\* The main loop of an item script after fetch returned error_msg d for
\* serial: results[serial] = data and the not_found / no_data / error lists.
RecordItem(res, serial, d) ==
    [data      |-> [res.data EXCEPT ![serial] = IF d = "OK" THEN "payload" ELSE "None"],
     no_data   |-> IF d = "NO_DATA" THEN Append(res.no_data, serial) ELSE res.no_data,
     not_found |-> IF d = "NOT_FOUND" THEN Append(res.not_found, serial)
                                      ELSE res.not_found,
     errors    |-> IF d = "ERROR" THEN [res.errors EXCEPT ![serial] = "msg"]
                                  ELSE res.errors]

\* How main ends when its fetch_all_* call raises: OrgDevices has no
\* try/except around it, the other two print the error and return.
ListRaiseExit(sc) == IF sc = "OrgDevices" THEN "crash" ELSE "error"

\* time.sleep(WAIT_SECONDS_BEFORE_STATUS)
WAIT_SECONDS_BEFORE_STATUS == 30

\* A mutation of PayloadDevices: the body holds the first identifier only.
PayloadDevices_FirstOnly(device_ids) == SubSeq(device_ids, 1, 1)

\* The "devices" relationship of the payload post_org_device_activity builds
\* once, before its loop: one entry per device id, in the order of the list.
PayloadDevices(device_ids) == [i \in 1..Len(device_ids) |-> device_ids[i]]

\* A mutation of HasActivityId: the identifier is not looked at.
HasActivityId_Always(activity_id) == TRUE

\* main of the assign/unassign script: "if not activity_id" is the negation.
HasActivityId(activity_id) == activity_id # ""

-----------------------------------------------------------------------------
(* Spec: one run of a script against the resource API                       *)

MaxRequests == 4  \* a listing or activity run sends at most this many requests
MaxItemRequests == 3 \* an item run sends at most this many requests
MaxSerials == 2   \* serialnumbers.txt holds at most this many lines
MaxPages == 2     \* the listing has at most this many pages

RunConfigs ==
    {[CLIENT_ID |-> "client-A", KEY_ID |-> "kid", PRIVATE_KEY_PATH |-> "key.pem",
      SCOPE |-> BusinessApi, FERNET_KEY |-> "k1"]}

\* The cache file at the start of a run: absent, or a record of the
\* configured client and scope that is still valid.
RunFiles(c) ==
    {NoFile,
     [kind |-> "record", key |-> c.FERNET_KEY, access_token |-> "T0",
      expires_at |-> StartTime + 50, client_id |-> c.CLIENT_ID, scope |-> c.SCOPE]}

RunTokenResponses ==
    {TokenResp(200, TRUE, [access_token |-> "T1", expires_in |-> 90, scope |-> sc]) :
        sc \in {MissingScope, SchoolApi, S_api}}
        \cup {TokenResp(400, TRUE, NoBody)}

RunSecondResponses(r1) == IF r1.status = 429 THEN RunTokenResponses ELSE {r1}

RetryAfterHeaders == {HeaderAbsent, <<"5">>, <<"s", "o", "o", "n">>}

\* The responses that are not successes: 429 with each Retry-After header,
\* and the statuses sts.
FailureResponses(sts) ==
    {ApiResp(429, h, FALSE, "absent", "", "", NoUrl) : h \in RetryAfterHeaders}
        \cup {ApiResp(st, HeaderAbsent, FALSE, "absent", "", "", NoUrl) : st \in sts}

ItemResponses ==
    FailureResponses(ErrorStatuses \cup {TransportError})
        \cup {ApiResp(200, HeaderAbsent, TRUE, d, "", "", NoUrl) :
                d \in {"full", "empty", "null"}}
        \cup {ApiResp(200, HeaderAbsent, FALSE, "absent", "", "", NoUrl)}

\* A listing page is served with status 200; its data and nextCursor are
\* those of the page the cursor of the request designates.
ListResponses ==
    FailureResponses(ErrorStatuses \cup {TransportError})
        \cup {ApiResp(200, HeaderAbsent, js, "page", "", "", NoUrl) : js \in BOOLEAN}

PostResponses ==
    FailureResponses(ErrorStatuses \cup {TransportError})
        \cup {ApiResp(201, HeaderAbsent, TRUE, "full", id, "IN_PROGRESS", NoUrl) :
                id \in {"", "act1"}}
        \cup {ApiResp(200, HeaderAbsent, TRUE, "full", "act1", "IN_PROGRESS", NoUrl),
              ApiResp(201, HeaderAbsent, FALSE, "absent", "", "", NoUrl)}

ActivityStatuses == {"", "IN_PROGRESS", "COMPLETED", "FAILED"}
DownloadUrls == {NoUrl, "", "https://signed/url"}

PollResponses ==
    FailureResponses(ErrorStatuses \cup {TransportError})
        \cup {ApiResp(200, HeaderAbsent, TRUE, "full", "act1", st, u) :
                st \in ActivityStatuses, u \in DownloadUrls}
        \cup {ApiResp(200, HeaderAbsent, FALSE, "absent", "", "", NoUrl)}

\* The answers of the signed URL: 200 with or without a Content-Disposition
\* file name, or a refusal.
DownloadResponses ==
    {[status |-> 200, filename |-> "report.csv"], [status |-> 200, filename |-> ""],
     [status |-> 403, filename |-> ""]}

\* The identifiers are interchangeable: the first line is called s1.
SerialLists ==
    {sl \in UNION {[1..n -> Serials] : n \in 1..MaxSerials} : sl[1] = "s1"}

PageData == {<<>>, <<"c">>, <<"b", "a">>}
PageLists == UNION {[1..n -> PageData] : n \in 1..MaxPages}

InitRun ==
    /\ ScopeIdle
    /\ acq = NoAcq /\ loaded = NoLoad /\ saved = NoSave /\ ticks = 0
    /\ now = StartTime
    /\ cfg \in RunConfigs
    /\ cacheFile \in RunFiles(cfg)
    /\ keyState = "ok"
    /\ script \in Scripts
    /\ serials \in IF script \in ListScripts THEN {<<>>} ELSE SerialLists
    /\ pages \in IF script \in ListScripts THEN PageLists ELSE {<<>>}
    /\ pc = "start" /\ exit = ""
    /\ token_state = NoTokenState /\ call = NewCall(NoTokenState)
    /\ idx = 0 /\ results = NoResults
    /\ cursor = 0 /\ devices = <<>>
    /\ activity = NoActivity /\ dl = NoDl
    /\ refreshes = 0 /\ nreq = 0
    /\ lastReq = NoReq /\ lastResp = NoResp /\ lastSleep = NoSleep
    /\ racers = NoRacers

\* What no request function changes.
runStatic == <<scopeVars, cfg, keyState, acq, loaded, saved, ticks, racers, script,
               serials, pages>>

\* The first get_token_and_*() of main (of fetch_all_* in the listing
\* scripts).  An exception is caught by the main of MdmServers,
\* MdmServerDevices and AssignUnassign and is uncaught in the others.
Start ==
    \E r1 \in RunTokenResponses : \E r2 \in RunSecondResponses(r1) :
        LET g == get_token_and_url(script, FALSE, TRUE, cfg, cacheFile, now,
                                   keyState, r1, r2)
            ts == [access_token |-> g.access_token, base_url |-> g.base,
                   refreshed_once |-> FALSE]
        IN  /\ pc = "start"
            /\ cacheFile' = g.file
            /\ now' = g.now
            /\ IF g.ok
               THEN /\ token_state' = ts
                    /\ call' = NewCall(ts)
                    /\ pc' = IF script \in ItemScripts THEN "item"
                             ELSE IF script \in ListScripts THEN "list" ELSE "post"
                    /\ idx' = IF script \in ItemScripts THEN 1 ELSE 0
                    /\ exit' = exit
               ELSE /\ pc' = "ended"
                    /\ exit' = IF script \in {"MdmServers", "MdmServerDevices",
                                              "AssignUnassign"}
                               THEN "error" ELSE "crash"
                    /\ UNCHANGED <<token_state, call, idx>>
            /\ acq' = [called |-> TRUE, pre_file |-> cacheFile, pre_now |-> now,
                       \* no answer is observed when nothing was posted
                       r1status |-> IF g.posts = 0 THEN 0 ELSE r1.status,
                       r2status |-> IF g.posts = 0 THEN 0 ELSE r2.status,
                       expires_in |-> IF g.posts = 0 THEN NoExpiry
                                      ELSE IF r1.status = 429 THEN r2.expires_in
                                      ELSE r1.expires_in,
                       printed |-> oauth_prints(cfg, cacheFile, now, keyState, r1, r2),
                       ok |-> g.ok, err |-> g.err,
                       access_token |-> g.access_token, scope |-> g.scope,
                       posts |-> g.posts, exchanges |-> g.exchanges,
                       keyReads |-> g.keyReads, slept |-> g.slept,
                       cacheReads |-> g.cacheReads]
            /\ UNCHANGED <<scopeVars, cfg, keyState, loaded, saved, ticks, racers, script,
                           serials, pages, results, cursor, devices, activity, dl,
                           refreshes, nreq, lastReq, lastResp, lastSleep>>

\* A mutation of AfterRefresh: the flag is set before the helper is called.
AfterRefresh_FlagFirst(ts, g, setsFlag) ==
    IF g.ok
    THEN [access_token |-> g.access_token, base_url |-> g.base,
          refreshed_once |-> ts.refreshed_once \/ setsFlag]
    ELSE [ts EXCEPT !.refreshed_once = @ \/ setsFlag]

\* token_state (the locals access_token, url and token_refreshed_once of a
\* listing function) after the 401 branch called the helper with
\* force_new=True and got g: the assignments follow the call, so an exception
\* of the helper skips them.  setsFlag: the branch assigns refreshed_once
\* (post_org_device_activity and get_activity_status keep a local
\* tried_refresh instead).
AfterRefresh(ts, g, setsFlag) ==
    IF g.ok
    THEN [access_token |-> g.access_token, base_url |-> g.base,
          refreshed_once |-> ts.refreshed_once \/ setsFlag]
    ELSE ts

\* The counters of the call after one more response.
Counted(c, r) ==
    [c EXCEPT !.requests = @ + 1,
              !.n401 = @ + (IF r.status = 401 THEN 1 ELSE 0),
              !.n429 = @ + (IF r.status = 429 THEN 1 ELSE 0)]

\* One request of fetch_device_info / fetch_assigned_server /
\* fetch_applecare_coverage for serials[idx] and what the function, and the
\* loop of main when the function returns, do with the response.
ItemRequest ==
    \E r \in ItemResponses :
        LET c0 == IF call.outcome # "" THEN NewCall(token_state) ELSE call
            c1 == Counted(c0, r)
            d  == fetch_item(script, token_state.refreshed_once, r)
        IN  /\ pc = "item"
            /\ nreq < MaxItemRequests
            /\ nreq' = nreq + 1
            /\ lastReq' = [token |-> token_state.access_token,
                           base |-> token_state.base_url,
                           target |-> serials[idx], cursor |-> 0, ids |-> <<>>]
            /\ lastResp' = [status |-> r.status, retry_after |-> r.retry_after,
                            data |-> r.data]
            /\ \/ /\ d = "sleep"
                  /\ now' = now + Sleep429(script, r.retry_after)
                  /\ lastSleep' = [kind |-> "429",
                                   seconds |-> Sleep429(script, r.retry_after)]
                  /\ call' = c1
                  /\ UNCHANGED <<cacheFile, token_state, idx, results, pc, exit,
                                 refreshes>>
               \/ /\ d = "refresh"
                  /\ \E rmOk \in BOOLEAN, t1 \in RunTokenResponses :
                       \E t2 \in RunSecondResponses(t1) :
                         LET g == get_token_and_url(script, TRUE, rmOk, cfg, cacheFile,
                                                    now, keyState, t1, t2)
                         IN  /\ cacheFile' = g.file
                             /\ now' = g.now
                             /\ refreshes' = refreshes + 1
                             /\ token_state' = AfterRefresh(token_state, g, TRUE)
                             /\ IF g.ok
                                THEN /\ call' = [c1 EXCEPT !.refreshes = @ + 1,
                                                 !.forced = Forced(cacheFile, g)]
                                     /\ UNCHANGED <<pc, exit>>
                                ELSE /\ call' = [c1 EXCEPT !.refreshes = @ + 1,
                                                           !.forced = Forced(cacheFile, g),
                                                           !.outcome = "refresh_failed"]
                                     /\ pc' = "ended"
                                     /\ exit' = "crash"
                  /\ lastSleep' = NoSleep
                  /\ UNCHANGED <<idx, results>>
               \/ /\ d = "raise"           \* the exception leaves main uncaught
                  /\ call' = [c1 EXCEPT !.outcome = "EXCEPTION"]
                  /\ pc' = "ended"
                  /\ exit' = "crash"
                  /\ lastSleep' = NoSleep
                  /\ UNCHANGED <<cacheFile, now, token_state, refreshes, idx, results>>
               \/ /\ d \in {"OK", "NO_DATA", "NOT_FOUND", "ERROR", "NONE"}
                  /\ results' = RecordItem(results, serials[idx], d)
                  /\ call' = [c1 EXCEPT !.outcome = d]
                  /\ IF idx = Len(serials)
                     THEN pc' = "ended" /\ exit' = "ok" /\ idx' = idx
                     ELSE idx' = idx + 1 /\ UNCHANGED <<pc, exit>>
                  /\ lastSleep' = NoSleep
                  /\ UNCHANGED <<cacheFile, now, token_state, refreshes>>
            /\ UNCHANGED <<runStatic, cursor, devices, activity, dl>>

\* A mutation of RequestCursor: the request carries no cursor.
RequestCursor_Absent(cur) == 0

\* params["cursor"] of the request of one turn: the loop's cursor, absent (0)
\* before the first page was served.
RequestCursor(cur) == cur

\* One turn of the while loop of fetch_all_devices / fetch_all_mdm_servers /
\* fetch_all_devices_for_mdm_server: the request for the page after cursor
\* and what the loop does with the response.  The locals access_token,
\* base_url and token_refreshed_once of the function are the fields of
\* token_state.  A served page is the one the cursor designates; its
\* nextCursor is absent on the last page.
ListStep(limit, Responses) ==
    \E r \in Responses :
        LET c1 == Counted(call, r)
            d  == fetch_page(script, token_state.refreshed_once, r)
            page == pages[RequestCursor(cursor) + 1]
            nextCursor == IF cursor + 1 < Len(pages) THEN cursor + 1 ELSE 0
        IN  /\ pc = "list"
            /\ nreq < limit
            /\ nreq' = nreq + 1
            /\ lastReq' = [token |-> token_state.access_token,
                           base |-> token_state.base_url,
                           target |-> "", cursor |-> RequestCursor(cursor),
                           ids |-> <<>>]
            /\ lastResp' = [status |-> r.status, retry_after |-> r.retry_after,
                            data |-> r.data]
            /\ \/ /\ d = "sleep"
                  /\ now' = now + Sleep429(script, r.retry_after)
                  /\ lastSleep' = [kind |-> "429",
                                   seconds |-> Sleep429(script, r.retry_after)]
                  /\ call' = c1
                  /\ UNCHANGED <<cacheFile, token_state, cursor, devices, pc, exit,
                                 refreshes>>
               \/ /\ d = "refresh"
                  /\ \E rmOk \in BOOLEAN, t1 \in RunTokenResponses :
                       \E t2 \in RunSecondResponses(t1) :
                         LET g == get_token_and_url(script, TRUE, rmOk, cfg, cacheFile,
                                                    now, keyState, t1, t2)
                         IN  /\ cacheFile' = g.file
                             /\ now' = g.now
                             /\ refreshes' = refreshes + 1
                             /\ token_state' = AfterRefresh(token_state, g, TRUE)
                             /\ IF g.ok
                                THEN /\ call' = [c1 EXCEPT !.refreshes = @ + 1,
                                                 !.forced = Forced(cacheFile, g)]
                                     /\ UNCHANGED <<pc, exit>>
                                ELSE /\ call' = [c1 EXCEPT !.refreshes = @ + 1,
                                                           !.forced = Forced(cacheFile, g),
                                                           !.outcome = "refresh_failed"]
                                     /\ pc' = "ended"
                                     /\ exit' = ListRaiseExit(script)
                  /\ lastSleep' = NoSleep
                  /\ UNCHANGED <<cursor, devices>>
               \/ /\ d = "raise"
                  /\ call' = [c1 EXCEPT !.outcome = "ERROR"]
                  /\ pc' = "ended"
                  /\ exit' = ListRaiseExit(script)
                  /\ lastSleep' = NoSleep
                  /\ UNCHANGED <<cacheFile, now, token_state, cursor, devices,
                                 refreshes>>
               \/ /\ d = "page"
                  /\ devices' = Extend(devices, page)
                  /\ cursor' = nextCursor
                  /\ IF nextCursor = 0
                     THEN /\ call' = [c1 EXCEPT !.outcome = "OK"]
                          /\ pc' = "ended"
                          /\ exit' = "ok"
                     ELSE /\ call' = c1
                          /\ UNCHANGED <<pc, exit>>
                  /\ lastSleep' = NoSleep
                  /\ UNCHANGED <<cacheFile, now, token_state, refreshes>>
            /\ UNCHANGED <<runStatic, idx, results, activity, dl>>

\* A turn of the loop answered by any response, within the request bound.
ListRequest == ListStep(MaxRequests, ListResponses)

\* One turn of the while loop of post_org_device_activity and, when the
\* function returns or raises, what main does next: print and return on an
\* exception or on an empty activity id, else sleep before the status check.
\* url and headers are locals computed at the entry of the function.
PostRequest ==
    \E r \in PostResponses :
        LET c1 == Counted(call, r)
            d  == post_org_device_activity(call.tried_429, call.tried_refresh, r)
        IN  /\ pc = "post"
            /\ nreq < MaxRequests
            /\ nreq' = nreq + 1
            /\ lastReq' = [token |-> call.hdr_token, base |-> call.url_base,
                           target |-> "", cursor |-> 0,
                           ids |-> PayloadDevices(serials)]
            /\ lastResp' = [status |-> r.status, retry_after |-> r.retry_after,
                            data |-> r.data]
            /\ \/ /\ d = "sleep"
                  /\ now' = now + Sleep429(script, r.retry_after)
                  /\ lastSleep' = [kind |-> "429",
                                   seconds |-> Sleep429(script, r.retry_after)]
                  /\ call' = [c1 EXCEPT !.tried_429 = TRUE]
                  /\ UNCHANGED <<cacheFile, token_state, activity, pc, exit,
                                 refreshes>>
               \/ /\ d = "refresh"
                  /\ \E rmOk \in BOOLEAN, t1 \in RunTokenResponses :
                       \E t2 \in RunSecondResponses(t1) :
                         LET g == get_token_and_url(script, TRUE, rmOk, cfg, cacheFile,
                                                    now, keyState, t1, t2)
                         IN  /\ cacheFile' = g.file
                             /\ now' = g.now
                             /\ refreshes' = refreshes + 1
                             /\ token_state' = AfterRefresh(token_state, g, FALSE)
                             /\ IF g.ok
                                THEN /\ call' = [c1 EXCEPT !.tried_refresh = TRUE,
                                                           !.refreshes = @ + 1,
                                                           !.forced = Forced(cacheFile, g),
                                                           !.hdr_token = g.access_token]
                                     /\ UNCHANGED <<pc, exit>>
                                ELSE /\ call' = [c1 EXCEPT !.tried_refresh = TRUE,
                                                           !.refreshes = @ + 1,
                                                           !.forced = Forced(cacheFile, g),
                                                           !.outcome = "refresh_failed"]
                                     /\ pc' = "ended"
                                     /\ exit' = "error"
                  /\ lastSleep' = NoSleep
                  /\ UNCHANGED activity
               \/ /\ d = "raise"
                  /\ call' = [c1 EXCEPT !.outcome = "ERROR"]
                  /\ pc' = "ended"
                  /\ exit' = "error"
                  /\ lastSleep' = NoSleep
                  /\ UNCHANGED <<cacheFile, now, token_state, activity, refreshes>>
               \/ /\ d = "return"
                  /\ call' = [c1 EXCEPT !.outcome = "OK"]
                  /\ IF ~HasActivityId(r.id)
                     THEN /\ activity' = [activity EXCEPT !.submitted = TRUE]
                          /\ pc' = "ended"
                          /\ exit' = "no_id"
                          /\ lastSleep' = NoSleep
                          /\ now' = now
                     ELSE /\ activity' = [activity EXCEPT !.submitted = TRUE,
                                             !.id = r.id,
                                             !.submitted_at = now,
                                             !.waited = WAIT_SECONDS_BEFORE_STATUS]
                          /\ pc' = "poll"
                          /\ exit' = exit
                          /\ lastSleep' = [kind |-> "wait",
                                           seconds |-> WAIT_SECONDS_BEFORE_STATUS]
                          /\ now' = now + WAIT_SECONDS_BEFORE_STATUS
                  /\ UNCHANGED <<cacheFile, token_state, refreshes>>
            /\ UNCHANGED <<runStatic, idx, results, cursor, devices, dl>>

\* A mutation of download_activity_csv: the artifact is fetched and written twice.
download_activity_csv_Twice(activity_id, dr) ==
    [requests |-> 2, auth |-> FALSE,
     files |-> IF dr.status = 200 THEN 2 ELSE 0,
     name |-> IF dr.status # 200 THEN "" ELSE "OrgDeviceActivity_" \o activity_id \o ".csv",
     raised |-> dr.status # 200]

\* A mutation of download_activity_csv: the request carries the run's headers.
download_activity_csv_WithBearer(activity_id, dr) ==
    [requests |-> 1, auth |-> TRUE,
     files |-> IF dr.status = 200 THEN 1 ELSE 0,
     name |-> IF dr.status # 200 THEN ""
              ELSE IF dr.filename # "" THEN dr.filename
              ELSE "OrgDeviceActivity_" \o activity_id \o ".csv",
     raised |-> dr.status # 200]

\* download_activity_csv(download_url, activity_id) answered by dr:
\* requests.get(download_url, stream=True) carries no Authorization header;
\* a status other than 200 raises before any file is opened; the file name is
\* the one of Content-Disposition, else OrgDeviceActivity_<id>.csv.
download_activity_csv(activity_id, dr) ==
    [requests |-> 1, auth |-> FALSE,
     files |-> IF dr.status = 200 THEN 1 ELSE 0,
     name |-> IF dr.status # 200 THEN ""
              ELSE IF dr.filename # "" THEN dr.filename
              ELSE "OrgDeviceActivity_" \o activity_id \o ".csv",
     raised |-> dr.status # 200]

\* One turn of the while loop of get_activity_status and, when the function
\* returns or raises, the rest of main: the download decision and
\* download_activity_csv inside its try/except.
PollRequest ==
    \E r \in PollResponses :
        LET c0 == IF call.outcome # "" THEN NewCall(token_state) ELSE call
            c1 == Counted(c0, r)
            \* main calls get_activity_status: the call and its time are noted
            a1 == IF call.outcome # ""
                  THEN [activity EXCEPT !.polls = @ + 1, !.poll_at = now]
                  ELSE activity
            d  == get_activity_status(c0.tried_429, c0.tried_refresh, r)
        IN  /\ pc = "poll"
            /\ nreq < MaxRequests
            /\ nreq' = nreq + 1
            /\ lastReq' = [token |-> c0.hdr_token, base |-> c0.url_base,
                           target |-> activity.id, cursor |-> 0, ids |-> <<>>]
            /\ lastResp' = [status |-> r.status, retry_after |-> r.retry_after,
                            data |-> r.data]
            /\ \/ /\ d = "sleep"
                  /\ now' = now + Sleep429(script, r.retry_after)
                  /\ lastSleep' = [kind |-> "429",
                                   seconds |-> Sleep429(script, r.retry_after)]
                  /\ call' = [c1 EXCEPT !.tried_429 = TRUE]
                  /\ activity' = a1
                  /\ UNCHANGED <<cacheFile, token_state, dl, pc, exit, refreshes>>
               \/ /\ d = "refresh"
                  /\ \E rmOk \in BOOLEAN, t1 \in RunTokenResponses :
                       \E t2 \in RunSecondResponses(t1) :
                         LET g == get_token_and_url(script, TRUE, rmOk, cfg, cacheFile,
                                                    now, keyState, t1, t2)
                         IN  /\ cacheFile' = g.file
                             /\ now' = g.now
                             /\ refreshes' = refreshes + 1
                             /\ token_state' = AfterRefresh(token_state, g, FALSE)
                             /\ IF g.ok
                                THEN /\ call' = [c1 EXCEPT !.tried_refresh = TRUE,
                                                           !.refreshes = @ + 1,
                                                           !.forced = Forced(cacheFile, g),
                                                           !.hdr_token = g.access_token]
                                     /\ UNCHANGED <<pc, exit>>
                                ELSE /\ call' = [c1 EXCEPT !.tried_refresh = TRUE,
                                                           !.refreshes = @ + 1,
                                                           !.forced = Forced(cacheFile, g),
                                                           !.outcome = "refresh_failed"]
                                     /\ pc' = "ended"
                                     /\ exit' = "error"
                  /\ lastSleep' = NoSleep
                  /\ activity' = a1
                  /\ UNCHANGED dl
               \/ /\ d = "raise"
                  /\ call' = [c1 EXCEPT !.outcome = "ERROR"]
                  /\ pc' = "ended"
                  /\ exit' = "error"
                  /\ lastSleep' = NoSleep
                  /\ activity' = a1
                  /\ UNCHANGED <<cacheFile, now, token_state, dl, refreshes>>
               \/ /\ d = "return"
                  /\ ShouldDownload(r.act_status, r.url)
                  /\ \E dr \in DownloadResponses :
                        dl' = download_activity_csv(activity.id, dr)
                  /\ call' = [c1 EXCEPT !.outcome = "OK"]
                  /\ activity' = [a1 EXCEPT !.polled = TRUE,
                                     !.status = r.act_status, !.url = r.url]
                  /\ pc' = "ended"
                  /\ exit' = "ok"
                  /\ lastSleep' = NoSleep
                  /\ UNCHANGED <<cacheFile, now, token_state, refreshes>>
               \/ /\ d = "return"
                  /\ ~ShouldDownload(r.act_status, r.url)
                  /\ call' = [c1 EXCEPT !.outcome = "OK"]
                  /\ activity' = [a1 EXCEPT !.polled = TRUE,
                                     !.status = r.act_status, !.url = r.url]
                  /\ pc' = "ended"
                  /\ exit' = "ok"
                  /\ lastSleep' = NoSleep
                  /\ UNCHANGED <<cacheFile, now, token_state, dl, refreshes>>
            /\ UNCHANGED <<runStatic, idx, results, cursor, devices>>

NextRun == Start \/ ItemRequest \/ ListRequest \/ PostRequest \/ PollRequest

\* The start of a run under every kind of configuration: the first
\* get_token_and_*() call of a script, at any time before or after which the
\* clock may advance.
StartupFiles ==
    {NoFile}
        \cup [kind : {"record"}, key : {"k1"}, access_token : {"T0"},
              expires_at : {StartTime + 1, StartTime + 50},
              client_id : {"client-A"},
              scope : {BusinessApi, EnterpriseApi}]

InitStartup ==
    /\ ScopeIdle
    /\ acq = NoAcq /\ loaded = NoLoad /\ saved = NoSave /\ ticks = 0
    /\ now = StartTime
    /\ cfg \in RunConfigs \cup IncompleteConfigs \cup UnrecognizedScopeConfigs
    /\ cacheFile \in StartupFiles
    /\ keyState \in {"ok", "unreadable"}
    /\ script \in Scripts
    /\ serials = (IF script \in ListScripts THEN <<>> ELSE <<"s1">>)
    /\ pages = (IF script \in ListScripts THEN << <<>> >> ELSE <<>>)
    /\ pc = "start" /\ exit = ""
    /\ token_state = NoTokenState /\ call = NewCall(NoTokenState)
    /\ idx = 0 /\ results = NoResults
    /\ cursor = 0 /\ devices = <<>>
    /\ activity = NoActivity /\ dl = NoDl
    /\ refreshes = 0 /\ nreq = 0
    /\ lastReq = NoReq /\ lastResp = NoResp /\ lastSleep = NoSleep
    /\ racers = NoRacers

\* A listing against a server that answers 429 at most MaxStall times during
\* the call and whose last page carries no nextCursor.  The script is one
\* thread that keeps running: every step that can be taken is taken.
MaxStall == 2
MaxListingRequests == MaxPages + MaxStall + 2

PatientResponses == {r \in ListResponses : r.status = 429 => call.n429 < MaxStall}

ListRequestPatient == ListStep(MaxListingRequests, PatientResponses)

InitListing == InitRun /\ script \in ListScripts

NextListing == Start \/ ListRequestPatient

SpecListing ==
    /\ InitListing
    /\ [][NextListing]_vars
    /\ WF_vars(Start)
    /\ WF_vars(ListRequestPatient)

NextStartup == Start \/ Tick

SpecStartup == InitStartup /\ [][NextStartup]_vars

-----------------------------------------------------------------------------
(* SpecRace: two runs call get_token_and_url() on the same cache file       *)

\* What a file operation raises when the other run got in between, on a
\* POSIX file system: os.remove, open(.., "rb") and os.chmod of a path that
\* is gone raise FileNotFoundError, and decrypting a file that is empty or
\* holds bytes of two writes raises InvalidToken.
FileExceptions == {"FileNotFoundError", "InvalidToken"}

\* A mutation of Caught: open().read() and decrypt are outside the try.
Caught_ReadUnguarded(site, exc) ==
    \/ site = "remove" /\ exc = "FileNotFoundError"
    \/ site = "chmod"

\* Whether the statement at site sits in a try block whose except clause
\* matches exc: os.remove in "except OSError", the read and decrypt of
\* _load_cached_token and the chmod of _save_cached_token in
\* "except Exception".  os.path.exists and open(.., "wb") are in no try.
Caught(site, exc) ==
    \/ site = "remove" /\ exc = "FileNotFoundError"
    \/ site = "read"
    \/ site = "chmod"

\* The file holding bytes of two overlapping writes.
MixedFile == [NoFile EXCEPT !.kind = "garbage"]

\* The answers of the token endpoint to run p: a token of its own, or 400.
RaceTokenResponses(p) ==
    {TokenResp(200, TRUE, [access_token |-> IF p = 1 THEN "T1" ELSE "T2",
                           expires_in |-> 90, scope |-> MissingScope]),
     TokenResp(400, TRUE, NoBody)}

\* Run p after the statement at site raised exc ("": nothing raised):
\* a caught exception continues at handled, no exception at next, and an
\* uncaught one ends the call.
RaceAfter(p, site, exc, next, handled) ==
    IF exc = "" THEN [racers[p] EXCEPT !.pc = next]
    ELSE IF Caught(site, exc)
    THEN [racers[p] EXCEPT !.pc = handled, !.caught = @ \cup {site}]
    ELSE [racers[p] EXCEPT !.pc = "done", !.err = exc]

RaceFrame == UNCHANGED <<scopeVars, cfg, now, keyState, ticks, acq, loaded, saved,
                         script, pc, exit, token_state, call, serials, idx,
                         results, pages, cursor, devices, activity, dl,
                         refreshes, nreq, lastReq, lastResp, lastSleep>>

\* if force_new and os.path.exists(TOKEN_CACHE_FILE):
RaceForceExists(p) ==
    /\ racers[p].pc = "force_exists"
    /\ racers' = [racers EXCEPT ![p].pc =
                     IF cacheFile.kind # "absent" THEN "remove" ELSE "exists"]
    /\ UNCHANGED cacheFile
    /\ RaceFrame

\* os.remove(TOKEN_CACHE_FILE)
RaceRemove(p) ==
    LET exc == IF cacheFile.kind = "absent" THEN "FileNotFoundError" ELSE "" IN
    /\ racers[p].pc = "remove"
    /\ cacheFile' = NoFile
    /\ racers' = [racers EXCEPT ![p] = RaceAfter(p, "remove", exc, "exists", "exists")]
    /\ RaceFrame

\* _load_cached_token: if not os.path.exists(CACHE_FILE): return None
RaceExists(p) ==
    /\ racers[p].pc = "exists"
    /\ racers' = [racers EXCEPT ![p].pc =
                     IF cacheFile.kind # "absent" THEN "read" ELSE "exchange"]
    /\ UNCHANGED cacheFile
    /\ RaceFrame

\* _load_cached_token from f.decrypt(open(CACHE_FILE, "rb").read()) on, and
\* "if cache: return" of get_access_token_and_scope.
RaceRead(p) ==
    LET exc == IF cacheFile.kind = "absent" THEN "FileNotFoundError"
               ELSE IF cacheFile.kind \in {"empty", "garbage"} THEN "InvalidToken"
               ELSE ""
        cache == _load_cached_token(cfg, cacheFile, now)
    IN  /\ racers[p].pc = "read"
        /\ racers' = [racers EXCEPT ![p] =
                         IF exc = "" /\ cache.kind = "record"
                         THEN [@ EXCEPT !.pc = "done", !.token = cache.access_token]
                         ELSE RaceAfter(p, "read", exc, "exchange", "exchange")]
        /\ UNCHANGED cacheFile
        /\ RaceFrame

\* _request_new_token, and _save_cached_token up to the encryption.
RaceExchange(p) ==
    \E r \in RaceTokenResponses(p) :
        LET rq == _request_new_token(r, r) IN
        /\ racers[p].pc = "exchange"
        /\ racers' = [racers EXCEPT ![p] =
                         IF rq.ok
                         THEN [@ EXCEPT !.pc = "open", !.exchanges = @ + 1,
                                        !.token = rq.token.access_token,
                                        !.pending = _save_cached_token(
                                                        cfg, cacheFile, now, rq.token).file]
                         ELSE [@ EXCEPT !.pc = "done", !.exchanges = @ + 1,
                                        !.err = rq.err]]
        /\ UNCHANGED cacheFile
        /\ RaceFrame

\* with open(CACHE_FILE, "wb") as fh: the file is created or truncated.
RaceOpen(p) ==
    /\ racers[p].pc = "open"
    /\ cacheFile' = EmptyFile
    /\ racers' = [racers EXCEPT ![p].pc = "write"]
    /\ RaceFrame

\* fh.write(encrypted) and the close.  The bytes go to the file that was
\* opened: if the path was removed since, it stays absent; if the other run
\* opened or wrote the file since, the path holds this record, the other
\* run's bytes, or a mix of both.
RaceWrite(p) ==
    /\ racers[p].pc = "write"
    /\ cacheFile' \in (IF cacheFile.kind = "absent" THEN {cacheFile}
                       ELSE IF cacheFile = EmptyFile /\ racers[3 - p].pc # "write"
                       THEN {racers[p].pending}
                       ELSE {cacheFile, racers[p].pending, MixedFile})
    /\ racers' = [racers EXCEPT ![p].pc = "chmod"]
    /\ RaceFrame

\* os.chmod(CACHE_FILE, 0o600), then the return of the token.
RaceChmod(p) ==
    LET exc == IF cacheFile.kind = "absent" THEN "FileNotFoundError" ELSE "" IN
    /\ racers[p].pc = "chmod"
    /\ racers' = [racers EXCEPT ![p] = RaceAfter(p, "chmod", exc, "done", "done")]
    /\ UNCHANGED cacheFile
    /\ RaceFrame

\* Each run calls the helper once, with or without force_new; the file is
\* absent or holds a valid record.
InitRace ==
    /\ ScopeIdle
    /\ script = "" /\ pc = "idle" /\ exit = ""
    /\ token_state = NoTokenState /\ call = NewCall(NoTokenState)
    /\ serials = <<>> /\ idx = 0 /\ results = NoResults
    /\ pages = <<>> /\ cursor = 0 /\ devices = <<>>
    /\ activity = NoActivity /\ dl = NoDl
    /\ refreshes = 0 /\ nreq = 0
    /\ lastReq = NoReq /\ lastResp = NoResp /\ lastSleep = NoSleep
    /\ acq = NoAcq /\ loaded = NoLoad /\ saved = NoSave /\ ticks = 0
    /\ now = StartTime /\ keyState = "ok"
    /\ cfg \in RunConfigs
    /\ cacheFile \in RunFiles(cfg)
    /\ racers \in [Racers -> {[NoRacer EXCEPT !.pc = IF fn THEN "force_exists" ELSE "exists",
                                              !.force = fn] : fn \in BOOLEAN}]

NextRace ==
    \E p \in Racers :
        \/ RaceForceExists(p)
        \/ RaceRemove(p)
        \/ RaceExists(p)
        \/ RaceRead(p)
        \/ RaceExchange(p)
        \/ RaceOpen(p)
        \/ RaceWrite(p)
        \/ RaceChmod(p)

SpecRace == InitRace /\ [][NextRace]_vars

Spec == InitRun /\ [][NextRun]_vars

-----------------------------------------------------------------------------
(* Claims about AxM_OAuth.py                                                *)

\* The cache file f decrypts under the configuration c to a record of c's
\* client and scope.
DecryptsToMatching(c, f) ==
    /\ f.kind = "record"
    /\ f.key = c.FERNET_KEY
    /\ f.client_id = c.CLIENT_ID
    /\ f.scope = c.SCOPE

\* C1: when the cache file decrypts to a record of the configured client and
\* scope whose expires_at is greater than the current time, the acquire
\* returns that record's access_token and makes no network call: no POST to
\* the token endpoint and no read of the private key.
C1_FastPath ==
    (/\ acq.called
     /\ ~ConfigMissing(cfg)
     /\ DecryptsToMatching(cfg, acq.pre_file)
     /\ acq.pre_file.expires_at > acq.pre_now)
    => (/\ acq.ok
        /\ acq.access_token = acq.pre_file.access_token
        /\ acq.posts = 0
        /\ acq.exchanges = 0
        /\ acq.keyReads = 0
        /\ acq.slept = 0
        /\ cacheFile = acq.pre_file)

C1_Witness ==
    /\ acq.called
    /\ DecryptsToMatching(cfg, acq.pre_file)
    /\ acq.pre_file.expires_at = acq.pre_now + 1
    /\ acq.ok /\ acq.access_token = "T0" /\ acq.posts = 0

\* The cached record of the configured client and scope has expired.
ExpiredMatching ==
    /\ acq.called
    /\ ~ConfigMissing(cfg)
    /\ DecryptsToMatching(cfg, acq.pre_file)
    /\ acq.pre_now >= acq.pre_file.expires_at

\* C2 as stated (for a private key that loads and signs): with an expired
\* cached record, one acquire makes exactly one call to the token endpoint,
\* whatever the endpoint answers.
C2_Original == (ExpiredMatching /\ keyState = "ok") => acq.posts = 1

\* C2 as amended: with an expired cached record, one acquire makes exactly one
\* token exchange (_request_new_token) when the client assertion can be built
\* and none when the private key cannot be used; the exchange POSTs once to
\* the token endpoint, and a second time exactly when the first answer is 429.
C2_ExchangeOnce ==
    ExpiredMatching =>
        /\ keyState # "ok" => acq.exchanges = 0 /\ acq.posts = 0 /\ ~acq.ok
        /\ keyState = "ok" => acq.exchanges = 1 /\ acq.keyReads = 1
        /\ keyState = "ok" /\ acq.r1status # 429 => acq.posts = 1 /\ acq.slept = 0
        /\ keyState = "ok" /\ acq.r1status = 429 =>
               acq.posts = 2 /\ acq.slept = TokenRetryWait

C2_Witness ==
    /\ ExpiredMatching
    /\ acq.pre_now = acq.pre_file.expires_at + 1
    /\ acq.r1status = 429
    /\ acq.posts = 2
    /\ acq.ok

\* A token response that _save_cached_token stores: a non-empty access_token
\* and an expires_in.
Storable(tr) == tr.access_token \notin {Missing, ""} /\ tr.expires_in # NoExpiry

\* C9 as stated: for every token response, _save_cached_token followed by
\* _load_cached_token (here: at once, in the same second) yields a record
\* whose token and scope are those written and whose expiry is at least 30
\* seconds before write time + expires_in.
C9_Original ==
    (/\ saved.called /\ loaded.called
     /\ Storable(saved.tr)
     /\ loaded.at = saved.at)
    => (/\ loaded.result.kind = "record"
        /\ loaded.result.access_token = saved.tr.access_token
        /\ loaded.result.scope = cfg.SCOPE
        /\ (saved.at + saved.tr.expires_in) - loaded.result.expires_at >= ExpiryMargin)

\* C9 as amended: for a token response with a non-empty access_token and
\* expires_in > 30, a load made before the stored expiry yields a record with
\* the written token, the configured client and scope, and an expiry exactly
\* 30 seconds before write time + expires_in; a load at or after that expiry,
\* and every load after a save with expires_in <= 30, yields None.
C9_RoundTrip ==
    (/\ saved.called /\ loaded.called /\ Storable(saved.tr))
    => IF saved.tr.expires_in > ExpiryMargin
          /\ loaded.at < saved.at + saved.tr.expires_in - ExpiryMargin
       THEN /\ loaded.result.kind = "record"
            /\ loaded.result.access_token = saved.tr.access_token
            /\ loaded.result.scope = cfg.SCOPE
            /\ loaded.result.client_id = cfg.CLIENT_ID
            /\ loaded.result.expires_at
                   = saved.at + saved.tr.expires_in - ExpiryMargin
       ELSE loaded.result.kind = "none"

C9_Witness ==
    /\ saved.called /\ loaded.called
    /\ saved.tr.access_token = "T1" /\ saved.tr.expires_in = 90
    /\ saved.tr.scope = SchoolApi /\ cfg.SCOPE = BusinessApi
    /\ loaded.at = saved.at + 31
    /\ loaded.result.kind = "record"
    /\ loaded.result.expires_at = saved.at + 60

-----------------------------------------------------------------------------
(* Claims about the scope-to-URL mapping                                    *)

\* C10 as stated (containment read case-insensitively, as the code lower-cases
\* the scope): in every script a scope containing "school" maps to the
\* api-school host, a scope containing "business" maps to the api-business
\* host, and any other scope raises an error with no host.
C10_Original ==
    (resolved.script # "" /\ scopeIn # NoneScope) =>
        /\ Contains(Lower(scopeIn), S_school)
               => resolved.r.base.host = SchoolHost
        /\ Contains(Lower(scopeIn), S_business)
               => resolved.r.base.host = BusinessHost
        /\ (~Contains(Lower(scopeIn), S_school) /\ ~Contains(Lower(scopeIn), S_business))
               => ~resolved.r.ok /\ resolved.r.base.host = NoHost

\* C10 as amended: in every script the host is a function of the lower-cased
\* scope alone: containing "school" -> api-school; containing "business" and
\* not "school" -> api-business; containing neither (or not a string) -> an
\* error and no host.
C10_ScopeMapping ==
    resolved.script # "" =>
        LET s == IF scopeIn = NoneScope THEN <<>> ELSE Lower(scopeIn) IN
        /\ Contains(s, S_school)
               => resolved.r.ok /\ resolved.r.base.host = SchoolHost
        /\ (Contains(s, S_business) /\ ~Contains(s, S_school))
               => resolved.r.ok /\ resolved.r.base.host = BusinessHost
        /\ (~Contains(s, S_school) /\ ~Contains(s, S_business))
               => ~resolved.r.ok /\ resolved.r.base.host = NoHost
        /\ scopeIn = BusinessApi => resolved.r.base.host = BusinessHost
        /\ scopeIn = SchoolDistrictApi => resolved.r.base.host = SchoolHost
        /\ scopeIn = Enterprise => ~resolved.r.ok

C10_Witness ==
    /\ resolved.script = "AssignUnassign"
    /\ scopeIn = SchoolDistrictApi
    /\ resolved.r.ok
    /\ resolved.r.base.host = SchoolHost

-----------------------------------------------------------------------------
(* Claims about the request functions (Spec)                                *)

\* C3 as stated: in every call of a request function a 401 triggers exactly
\* one forced refresh.
C3_Original == call.n401 >= 1 => call.refreshes = 1

\* C3: a call of a request function makes at most one forced refresh: exactly
\* one when it gets a 401 while the flag it consults (the run-wide
\* refreshed_once of the item scripts, the local flag of the listing and
\* activity functions) was unset at its start, none when the run-wide flag was
\* already set by an earlier item.  A 401 that is not followed by a refresh
\* ends the call with an error, and a call answered by 401s only stops after
\* at most two requests.
C3_RefreshPerCall ==
    /\ call.refreshes <= 1
    /\ (call.refreshes = 1) <=> (call.n401 >= 1 /\ ~call.flagAtStart)
    /\ (call.n401 > call.refreshes) => call.outcome = "ERROR"
    /\ call.n401 <= 2
    /\ (call.requests = call.n401) => call.requests <= 2

C3_Witness ==
    /\ call.n401 = 2
    /\ call.requests = 2
    /\ call.refreshes = 1
    /\ call.outcome = "ERROR"

\* C4: during one run of any script the forced token refresh is performed at
\* most once in total.
C4_Original == refreshes <= 1

\* C5: a 429 whose Retry-After parses as an integer N (N >= 0) is followed by
\* a sleep of N seconds, and a 429 without such a header by a sleep of 60
\* seconds, in every script.
C5_Original ==
    (lastResp.status = 429 /\ lastSleep.kind = "429")
    => lastSleep.seconds =
         (IF IsIntText(lastResp.retry_after) /\ IntOf(lastResp.retry_after) >= 0
          THEN IntOf(lastResp.retry_after) ELSE DefaultWait)

C7_Concatenation ==
    script \in ListScripts =>
        /\ devices = Flatten(SubSeq(pages, 1,
                        IF call.outcome = "OK" THEN Len(pages) ELSE cursor))
        /\ (pc = "ended" /\ exit = "ok") => devices = Flatten(pages)

C7_Witness ==
    /\ script \in ListScripts
    /\ pc = "ended" /\ exit = "ok"
    /\ pages = << <<"b", "a">>, <<"c">> >>
    /\ devices = <<"b", "a", "c">>
    /\ call.n429 >= 1 /\ call.n401 = 1 /\ call.refreshes = 1

\* C8: once the status has been polled, the download request is made if and
\* only if the polled status is "COMPLETED" and downloadUrl is a non-empty
\* string; otherwise no download request is made, no file is written, nothing
\* is raised and the run ends normally.  Before the poll nothing is downloaded.
C8_DownloadIff ==
    /\ activity.polled =>
          /\ (dl.requests = 1)
                <=> (activity.status = "COMPLETED" /\ activity.url # NoUrl
                     /\ activity.url # "")
          /\ dl.requests = 0 => (dl = NoDl /\ pc = "ended" /\ exit = "ok")
    /\ ~activity.polled => dl = NoDl

C8_Witness ==
    /\ activity.polled
    /\ activity.status = "COMPLETED"
    /\ activity.url = "https://signed/url"
    /\ dl.requests = 1 /\ dl.files = 1
    /\ exit = "ok"

-----------------------------------------------------------------------------
(* Claims about the order of a run, the token exchange and the cache       *)

C12_RetryOnce ==
    (acq.called /\ acq.exchanges = 1) =>
        /\ acq.posts <= 2
        /\ acq.slept \in {0, 60}
        /\ IF acq.r1status = 429
           THEN acq.posts = 2 /\ acq.slept = 60
           ELSE acq.posts = 1 /\ acq.slept = 0
        /\ (acq.r1status = 429 /\ acq.r2status = 429)
              => (~acq.ok /\ acq.err = "429 twice" /\ cacheFile = acq.pre_file)

C12_Witness ==
    /\ acq.called /\ acq.exchanges = 1
    /\ acq.r1status = 429 /\ acq.r2status = 429
    /\ acq.posts = 2 /\ acq.slept = 60
    /\ ~acq.ok /\ acq.err = "429 twice"

\* C13: a 400 from the token endpoint, to the first POST or to the retry
\* after a 429, ends the exchange with the credentials error and no further
\* POST; so does every other non-success status with the token error; in
\* both cases the cache file is left as it was.
C13_FatalStatuses ==
    (acq.called /\ acq.exchanges = 1) =>
        /\ acq.r2status = 400 =>
              /\ ~acq.ok /\ acq.err = "400"
              /\ acq.posts = (IF acq.r1status = 429 THEN 2 ELSE 1)
              /\ cacheFile = acq.pre_file
        /\ (acq.r2status >= 400 /\ acq.r2status \notin {400, 429}) =>
              /\ ~acq.ok /\ acq.err = "token error"
              /\ acq.posts = (IF acq.r1status = 429 THEN 2 ELSE 1)
              /\ cacheFile = acq.pre_file

C13_Witness ==
    /\ acq.called /\ acq.exchanges = 1
    /\ acq.r1status = 429 /\ acq.r2status = 400
    /\ acq.err = "400" /\ acq.posts = 2
    /\ acq.pre_file.kind = "record" /\ cacheFile = acq.pre_file

C15_Original ==
    (loaded.called /\ FernetOk(cfg)) => loaded.result.kind \in {"none", "record"}

\* C16: every forced refresh (get_token_and_*(force_new=True)) performs a
\* token exchange with the authorization endpoint, so that what it returns
\* is never the token the cache held when it was called.
C16_Original == call.forced.done => call.forced.exchanges = 1

\* C17: once a 401 has been received while the refresh flag was set (the
\* call ended with the 401 error), the run sends no further request to the
\* resource API.
C17_Original ==
    [][(lastResp.status = 401 /\ call.outcome = "ERROR") => nreq' = nreq]_vars


-----------------------------------------------------------------------------
(* Claims about statuses that are not retried and about batches            *)

\* The statuses every request function translates to an error at once.
NoRetryStatuses == {400, 403, 404, 409, 422}

\* C18: in every request function a 400, 403, 404, 409 or 422 response is
\* never retried.  The step that receives it ends the call with an error
\* outcome (NOT_FOUND for the 404 of a single-resource lookup), sleeps for
\* nothing, refreshes no token and leaves the cache alone; the listing and
\* assign/unassign scripts end there, and the request that follows in a
\* *_FromList script is the first request of a new call, for the next serial.
C18_NoRetry ==
    [][ /\ (nreq' = nreq + 1 /\ lastResp'.status \in NoRetryStatuses) =>
              /\ call'.outcome \in {"ERROR", "NOT_FOUND"}
              /\ call'.outcome = "NOT_FOUND" =>
                    (lastResp'.status = 404 /\ script \in ItemScripts)
              /\ now' = now
              /\ lastSleep' = NoSleep
              /\ refreshes' = refreshes
              /\ call'.refreshes = (IF call.outcome = "" THEN call.refreshes ELSE 0)
              /\ cacheFile' = cacheFile
              /\ token_state'.access_token = token_state.access_token
              /\ script \notin ItemScripts => pc' = "ended"
        /\ (nreq' = nreq + 1 /\ lastResp.status \in NoRetryStatuses
               /\ call.outcome \in {"ERROR", "NOT_FOUND"}) =>
              /\ script \in ItemScripts
              /\ call'.requests = 1
              /\ idx' >= idx
              /\ lastReq'.target = serials[idx]
      ]_vars

\* C18 witness: every one of the five statuses has ended a call: a 422 the
\* submission, a 409 a call that had already slept on a 429, a 404 the status
\* check and a listing, a 400 and a 403 a single-resource lookup.
C18_Witness ==
    /\ lastResp.status = 409
    /\ script = "AssignUnassign"
    /\ call.n429 = 1
    /\ call.outcome = "ERROR"
    /\ ~activity.submitted
    /\ pc = "ended"
    /\ exit = "error"

\* A status that fetch_device_info / fetch_assigned_server /
\* fetch_applecare_coverage return as the error of the serial: every status
\* of ErrorStatuses, a 401 counting only once the token has been refreshed.
ItemErrorStep ==
    /\ script \in ItemScripts
    /\ nreq' = nreq + 1
    /\ lastResp'.status \in ErrorStatuses
    /\ lastResp'.status = 401 => token_state.refreshed_once

\* C19: in the three *_FromList scripts an error status on one serial never
\* aborts the batch.  Every request is for the serial at the loop index, the
\* index only moves to the next serial, and a run that ends normally has gone
\* through the whole list; a step answered an error status records the
\* serial it asked for, and no other, in the NOT_FOUND list (404) or in the
\* error map (any other), then goes on with the next serial, or ends the
\* run normally after the last one.
C19_BatchContinues ==
    [][ /\ (script \in ItemScripts /\ nreq' = nreq + 1) =>
              /\ lastReq'.target = serials[idx]
              /\ idx' \in {idx, idx + 1}
              /\ (exit' = "ok") => idx' = Len(serials)
        /\ ItemErrorStep =>
              /\ exit' \in {"", "ok"}
              /\ results'.data = [results.data EXCEPT ![serials[idx]] = "None"]
              /\ results'.no_data = results.no_data
              /\ IF lastResp'.status = 404
                 THEN /\ results'.not_found = Append(results.not_found, serials[idx])
                      /\ results'.errors = results.errors
                 ELSE /\ results'.not_found = results.not_found
                      /\ results'.errors = [results.errors EXCEPT ![serials[idx]] = "msg"]
              /\ IF idx < Len(serials)
                 THEN idx' = idx + 1 /\ pc' = "item" /\ exit' = ""
                 ELSE idx' = idx /\ pc' = "ended" /\ exit' = "ok"
      ]_vars

\* C19 witness: a batch of two serials whose first lookup was answered an
\* error status and whose second was answered 404 ended normally with each
\* serial recorded against itself.
C19_Witness ==
    /\ script \in ItemScripts
    /\ serials = <<"s1", "s2">>
    /\ results.errors = [x \in Serials |-> IF x = "s1" THEN "msg" ELSE "unset"]
    /\ results.not_found = <<"s2">>
    /\ lastReq.target = "s2"
    /\ lastResp.status = 404
    /\ nreq = 2
    /\ pc = "ended"
    /\ exit = "ok"

\* C20: in the *_FromList scripts a transport exception on a request, or a
\* response that cannot be parsed, on one item never crashes the batch: it is
\* recorded as the error of that serial and the loop goes on with the next
\* serial, or ends the run normally after the last one.
C20_Original ==
    [][ ( /\ script \in ItemScripts
          /\ nreq' = nreq + 1
          /\ lastResp'.status \in {TransportError, 200}
          /\ call'.outcome \notin {"OK", "NO_DATA"} ) =>
              /\ exit' \in {"", "ok"}
              /\ results'.errors = [results.errors EXCEPT ![serials[idx]] = "msg"]
              /\ IF idx < Len(serials)
                 THEN idx' = idx + 1 /\ pc' = "item"
                 ELSE pc' = "ended" /\ exit' = "ok"
      ]_vars

-----------------------------------------------------------------------------
(* Claims about outcomes, configuration and the submission                  *)

\* C21: fetch_applecare_coverage keeps three outcomes apart.  A step of the
\* AppleCare script that ends a call has exactly one outcome; it is the
\* payload exactly for a 200 with a non-empty data list, NO_DATA exactly for
\* a 200 with the empty list and NOT_FOUND exactly for a 404; main stores the
\* payload under the serial, or appends the serial to the list of its outcome
\* and to no other list.
C21_ThreeOutcomes ==
    [][ (script = "AppleCare" /\ nreq' = nreq + 1 /\ call'.outcome # ""
           /\ exit' # "crash") =>
          LET serial == serials[idx]
              st == lastResp'.status
              body == lastResp'.data
              o == call'.outcome
          IN  /\ o \in {"OK", "NO_DATA", "NOT_FOUND", "ERROR"}
              /\ (o = "OK") <=> (st = 200 /\ body = "full")
              /\ (o = "NO_DATA") <=> (st = 200 /\ body = "empty")
              /\ (o = "NOT_FOUND") <=> (st = 404)
              /\ results'.data[serial] = (IF o = "OK" THEN "payload" ELSE "None")
              /\ results'.no_data = (IF o = "NO_DATA"
                                     THEN Append(results.no_data, serial)
                                     ELSE results.no_data)
              /\ results'.not_found = (IF o = "NOT_FOUND"
                                       THEN Append(results.not_found, serial)
                                       ELSE results.not_found)
              /\ (o # "ERROR") => results'.errors = results.errors
      ]_vars

\* C21 witness: a run of the AppleCare script over two serials, the first
\* answered 200 with the empty list and the second 404, ended with each
\* serial in its own list.
C21_Witness ==
    /\ script = "AppleCare"
    /\ serials = <<"s1", "s2">>
    /\ results.no_data = <<"s1">>
    /\ results.not_found = <<"s2">>
    /\ results.errors = NoResults.errors
    /\ lastResp.status = 404
    /\ call.outcome = "NOT_FOUND"
    /\ exit = "ok"

\* C22: a submission answered without an activity identifier ends the run
\* there: the step that receives the answer takes no time, the run is over
\* with nothing waited, no status check and no download; and whenever a
\* wait, a status check or a download has happened, the activity has an
\* identifier.
C22_NoIdentifier ==
    [][ /\ (pc = "post" /\ nreq' = nreq + 1 /\ call'.outcome = "OK"
               /\ activity'.id = "") =>
              /\ now' = now
              /\ lastSleep' = NoSleep
              /\ pc' = "ended"
              /\ exit' = "no_id"
              /\ activity'.submitted
              /\ activity'.waited = 0
              /\ activity'.polls = 0
              /\ ~activity'.polled
              /\ dl' = NoDl
        /\ (pc' = "poll" \/ activity'.waited > 0 \/ activity'.polls > 0
               \/ dl'.requests > 0) => activity'.id # ""
        /\ (exit' = "no_id") => (lastReq'.ids = serials /\ nreq' = nreq + 1)
      ]_vars

\* C22 witness: a submission retried after a 429 and then answered 201
\* without an identifier; the run is over, only POSTs were sent.
C22_Witness ==
    /\ script = "AssignUnassign"
    /\ lastResp.status = 201
    /\ call.n429 = 1
    /\ call.outcome = "OK"
    /\ activity.submitted /\ activity.id = ""
    /\ activity.waited = 0 /\ activity.polls = 0
    /\ dl.requests = 0
    /\ exit = "no_id"
    /\ pc = "ended"

\* C23: a configuration error, an unrecognized scope included, ends the run
\* before any network call: the run that ends on one has sent nothing to the
\* token endpoint and nothing to the resource API.
C23_Original ==
    (acq.called /\ ~acq.ok /\ acq.err \in {"config", "InvalidScope"}) =>
        /\ pc = "ended" /\ exit \in {"error", "crash"}
        /\ acq.posts = 0
        /\ nreq = 0

\* One of the five configuration values is missing or empty.
SomeValueAbsent ==
    "" \in {cfg.CLIENT_ID, cfg.KEY_ID, cfg.PRIVATE_KEY_PATH, cfg.FERNET_KEY}
        \/ cfg.SCOPE = <<>>

\* C28: all five configuration values are required.  When one is missing
\* or empty, get_access_token_and_scope fails with the configuration error
\* having read neither the cache file nor the private key, having sent
\* nothing to the token endpoint and slept for nothing, and the cache file is
\* what it was; the configuration error is raised in no other case.
C28_ConfigRequired ==
    acq.called =>
        /\ SomeValueAbsent =>
              /\ ~acq.ok /\ acq.err = "config"
              /\ acq.cacheReads = 0
              /\ acq.keyReads = 0
              /\ acq.posts = 0 /\ acq.exchanges = 0 /\ acq.slept = 0
              /\ cacheFile = acq.pre_file
        /\ (acq.err = "config") => SomeValueAbsent

\* C28 witness: only the Fernet key is missing, the cache holds an expired
\* record of the client; the call failed and the record is still there.
C28_Witness ==
    /\ acq.called
    /\ cfg.FERNET_KEY = "" /\ cfg.CLIENT_ID # "" /\ cfg.SCOPE # <<>>
    /\ acq.pre_file.kind = "record"
    /\ acq.pre_file.client_id = cfg.CLIENT_ID
    /\ acq.pre_file.expires_at < acq.pre_now
    /\ keyState = "ok"
    /\ acq.err = "config"
    /\ acq.cacheReads = 0
    /\ cacheFile = acq.pre_file

\* C24: with one run writing the cache file while another reads it, what
\* the reader finds in the file is the complete record that was there before
\* the write or the complete record being written, never a partial or
\* empty content.
C24_Original ==
    loaded.called =>
        \/ loaded.file = (IF saved.called THEN saved.pre_file ELSE cacheFile)
        \/ saved.called /\ loaded.file = PendingRecord

-----------------------------------------------------------------------------
(* Claims about the token in use                                            *)

\* The latest moment at which the server can still accept the token of the
\* cache record f: the record was written with
\* expires_at = issue time + max(expires_in - 30, 0), hence
\* issue time + expires_in <= expires_at + 30.
ServerExpiry(f) == f.expires_at + ExpiryMargin

\* C25: no request to the resource API carries a token whose server-side
\* expiry has passed: whenever a request is sent with the token of the cache
\* record, the time of the request is before the server-side expiry of that
\* token.
C25_Original ==
    [][ (nreq' = nreq + 1 /\ cacheFile.kind = "record"
           /\ cacheFile.access_token = lastReq'.token) =>
              now < ServerExpiry(cacheFile)
      ]_vars

C27_WholeBatch ==
    [][ /\ (pc = "post" /\ nreq' = nreq + 1) =>
              /\ script = "AssignUnassign"
              /\ lastReq'.ids = serials
              /\ lastResp'.status = 201 => pc' \in {"poll", "ended"}
        /\ (pc \notin {"start", "post"}) => pc' # "post"
        /\ (pc # "post" /\ nreq' = nreq + 1) => lastReq'.ids = <<>>
      ]_vars

\* C27 witness: a submission of two device ids answered 429, then 401, then
\* 201: the third POST still carries both ids, in order.
C27_Witness ==
    /\ script = "AssignUnassign"
    /\ serials = <<"s1", "s2">>
    /\ call.n429 = 1 /\ call.n401 = 1 /\ call.requests = 3
    /\ lastReq.ids = <<"s1", "s2">>
    /\ lastResp.status = 201
    /\ activity.submitted /\ activity.id = "act1"
    /\ pc = "poll"

\* The token strings the server may issue.
TokenNames == {"T1", "T2"}

\* The same answer with another token string in it.
WithToken(r, tok) ==
    IF r.access_token = Missing THEN r ELSE [r EXCEPT !.access_token = tok]

\* C29: the access token is in nothing AxM_OAuth.py prints and in no error
\* message it raises.  No line printed by the call that was made holds a
\* token string; and a call made in this state prints the same lines
\* whatever token string the answers of the server hold.
C29_TokenNotPrinted ==
    /\ acq.called =>
          \A i \in DOMAIN acq.printed :
              /\ acq.printed[i].body.access_token = Missing
              /\ acq.printed[i].text \notin TokenNames \cup {"T0"}
    /\ ~acq.called =>
          \A r1 \in TokenResponses : \A tok \in TokenNames :
              \A r2 \in SecondResponses(r1) :
                  main_prints(cfg, cacheFile, now, keyState, r1, r2)
                    = main_prints(cfg, cacheFile, now, keyState,
                                  WithToken(r1, tok), WithToken(r2, tok))

\* C29 witness: the call waited on a 429, obtained the token T2 and printed
\* its four lines, the scope among them.
C29_Witness ==
    /\ acq.called /\ acq.ok
    /\ acq.r1status = 429
    /\ acq.access_token = "T2"
    /\ cacheFile.kind = "record" /\ cacheFile.access_token = "T2"
    /\ Len(acq.printed) = 5
    /\ acq.printed[5].scope = acq.scope

-----------------------------------------------------------------------------
(* Claims about termination                                                 *)

\* C30: fetch_all_devices, fetch_all_mdm_servers and
\* fetch_all_devices_for_mdm_server return or raise in the end when the
\* server answers 429 only a bounded number of times and its last page has
\* no nextCursor; and the loop itself has no budget: whatever the number of
\* 429s and of pages before, a 429 and a served page that moves the cursor
\* to a next page are followed by another turn of the loop.
C30_ListingTerminates ==
    /\ <>(pc = "ended")
    /\ [][ (pc = "list" /\ nreq' = nreq + 1) =>
              /\ lastResp'.status = 429 => (pc' = "list" /\ call'.outcome = "")
              /\ (lastResp'.status = 200 /\ cursor' # cursor /\ cursor' # 0) =>
                    (pc' = "list" /\ call'.outcome = "")
          ]_vars

\* C30 witness: a listing of two pages that was answered 429 twice, then
\* served both pages, returned with the devices of both.
C30_Witness ==
    /\ script \in ListScripts
    /\ Len(pages) = MaxPages
    /\ call.n429 = MaxStall
    /\ call.requests = MaxStall + MaxPages
    /\ devices = pages[1] \o pages[2]
    /\ devices # <<>>
    /\ call.outcome = "OK"
    /\ pc = "ended" /\ exit = "ok"

-----------------------------------------------------------------------------
(* Claims about retries and the bound token                                 *)

\* C31: in a paginated listing every request carries the loop's cursor; a
\* 429 and a 401 response leave the cursor and the accumulated list
\* unchanged, and the request that follows one of them carries the cursor of
\* the request they answered.
C31_SamePageRetried ==
    [][ (pc = "list" /\ nreq' = nreq + 1) =>
          /\ lastReq'.cursor = cursor
          /\ lastResp'.status \in {429, 401} =>
                (cursor' = cursor /\ devices' = devices)
          /\ (nreq > 0 /\ lastResp.status \in {429, 401}) =>
                lastReq'.cursor = lastReq.cursor
      ]_vars

\* C31 witness: the second page was asked for three times (429, then 401
\* and a refresh, then served) and the listing returned each page once.
C31_Witness ==
    /\ script \in ListScripts
    /\ pages = <<<<"b", "a">>, <<"c">>>>
    /\ call.n429 = 1 /\ call.n401 = 1 /\ call.refreshes = 1
    /\ call.requests = 4
    /\ lastReq.cursor = 1
    /\ devices = <<"b", "a", "c">>
    /\ pc = "ended" /\ exit = "ok"

\* C32: after the first get_token_and_*() of the run, token_state changes
\* only in a step whose response is 401, that is the first 401 (of the run
\* where refreshed_once is kept, of the call where tried_refresh is kept) and
\* whose forced refresh succeeded; a forced refresh that fails leaves the
\* token, the base URL and the flag as they were.
C32_TokenStateFrame ==
    [][ pc # "start" =>
          /\ token_state' # token_state =>
                /\ nreq' = nreq + 1
                /\ lastResp'.status = 401
                /\ refreshes' = refreshes + 1
                /\ call'.forced.done /\ call'.forced.ok
                /\ call'.refreshes = 1
                /\ script # "AssignUnassign" =>
                      (~token_state.refreshed_once /\ token_state'.refreshed_once)
          /\ (refreshes' = refreshes + 1 /\ ~call'.forced.ok) =>
                token_state' = token_state
      ]_vars

\* C32 witness: a run bound to the cached token T0 whose forced refresh was
\* answered with a token (T1, now in the cache file) whose scope maps to no
\* API host; token_state still holds T0, its base URL and a false flag.
C32_Witness ==
    /\ call.outcome = "refresh_failed"
    /\ call.forced.done /\ ~call.forced.ok
    /\ acq.called /\ acq.ok
    /\ lastResp.status = 401
    /\ token_state.access_token = "T0"
    /\ token_state.base_url = lastReq.base
    /\ ~token_state.refreshed_once
    /\ call.forced.exchanges = 1
    /\ cacheFile.kind = "record" /\ cacheFile.access_token = "T1"
    /\ pc = "ended"

C34_CallBounded ==
    (script = "AssignUnassign" /\ pc # "start") =>
        /\ call.requests <= 3
        /\ call.refreshes <= 1
        /\ call.n429 <= 2 /\ call.n401 <= 2
        /\ call.requests = 3 => call.outcome \in {"OK", "ERROR", "refresh_failed"}
        /\ (call.requests > 0 /\ lastResp.status \notin {429, 401}) =>
              call.outcome \in {"OK", "ERROR"}
        /\ call.outcome = "OK" => lastResp.status \in {200, 201}

\* C34 witness: a get_activity_status call answered 429, then 401, then
\* 200 returned after its third request.
C34_Witness ==
    /\ script = "AssignUnassign"
    /\ activity.polls = 1
    /\ call.requests = 3 /\ call.n429 = 1 /\ call.n401 = 1 /\ call.refreshes = 1
    /\ call.outcome = "OK"
    /\ lastResp.status = 200

-----------------------------------------------------------------------------
(* Claims about two runs on one cache file                                  *)

\* C35: whatever the interleaving of two runs on the cache file, a call
\* that has ended returned a token or ended with an error of the token
\* endpoint, never with an exception of a file operation, and made at most
\* one token exchange.
C35_NoRaceFailure ==
    \A p \in Racers :
        /\ racers[p].err \notin FileExceptions
        /\ racers[p].exchanges <= 1
        /\ racers[p].pc = "done" =>
              \/ racers[p].err = "" /\ racers[p].token # ""
              \/ racers[p].err = "400" /\ racers[p].exchanges = 1

\* C35 witness: run 1 saw the file, run 2 (force_new) removed it before run
\* 1 read it; run 1 took the miss, exchanged a token of its own, and both
\* runs returned a token.
C35_Witness ==
    /\ racers[1].pc = "done" /\ racers[2].pc = "done"
    /\ ~racers[1].force /\ racers[2].force
    /\ "read" \in racers[1].caught
    /\ racers[1].exchanges = 1 /\ racers[1].token = "T1"
    /\ racers[2].exchanges = 1 /\ racers[2].token = "T2"
    /\ racers[1].err = "" /\ racers[2].err = ""

-----------------------------------------------------------------------------
(* Claims relating two calls of get_access_token_and_scope                  *)

\* The call made now, in the state the previous call left: it reads the
\* cache file as it is; r answers its token request if it makes one.
NextCall(r) == get_access_token_and_scope(cfg, cacheFile, now, keyState, r, r)

\* C36: when a call has exchanged and cached a token, a later call that
\* returns that token from the cache returns the scope the first call
\* returned, so that every script resolves both to the same base URL or
\* rejects both.
C36_Original ==
    (acq.called /\ acq.ok /\ acq.exchanges = 1) =>
        \A r \in TokenResponses :
            (NextCall(r).ok /\ NextCall(r).exchanges = 0
                /\ NextCall(r).access_token = acq.access_token) =>
                    /\ NextCall(r).scope = acq.scope
                    /\ \A sc \in Scripts :
                          ScopeToBase(sc, NextCall(r).scope) = ScopeToBase(sc, acq.scope)

\* The moment the call observed in acq exchanged its token.
ExchangedAt == acq.pre_now + acq.slept

\* C37: after a call that exchanged a token whose expires_in exceeds 30, a
\* call made less than expires_in - 30 seconds after the exchange, the
\* configuration and the cache file being as the first call left them,
\* returns the same access token, posts nothing to the token endpoint and
\* leaves the cache file as it is.
C37_Idempotent ==
    (acq.called /\ acq.ok /\ acq.exchanges = 1
        /\ acq.expires_in # NoExpiry /\ acq.expires_in > ExpiryMargin
        /\ now - ExchangedAt < acq.expires_in - ExpiryMargin) =>
        \A r \in TokenResponses :
            /\ NextCall(r).ok
            /\ NextCall(r).access_token = acq.access_token
            /\ NextCall(r).posts = 0 /\ NextCall(r).exchanges = 0
            /\ NextCall(r).keyReads = 0
            /\ NextCall(r).file = cacheFile

\* C37 witness: a token with expires_in = 90 was exchanged after a 429 and
\* 31 seconds have passed since; the call made now returns it from the cache.
C37_Witness ==
    /\ acq.called /\ acq.ok /\ acq.exchanges = 1 /\ acq.posts = 2
    /\ acq.expires_in = 90
    /\ ticks = 2 /\ now = ExchangedAt + 31
    /\ NextCall(TokenResp(400, TRUE, NoBody)).ok
    /\ NextCall(TokenResp(400, TRUE, NoBody)).access_token = acq.access_token
\* The outcome classes a serial of the input list is in at the end of a run:
\* counted in the first line of the summary (results[serial] is not None),
\* listed in no_data_serials, listed in not_found_serials, a key of
\* error_serials.
OutcomeClasses(res, serial) ==
    (IF res.data[serial] = "payload" THEN {"success"} ELSE {})
        \cup (IF \E i \in 1..Len(res.no_data) : res.no_data[i] = serial
              THEN {"NO_DATA"} ELSE {})
        \cup (IF \E i \in 1..Len(res.not_found) : res.not_found[i] = serial
              THEN {"NOT_FOUND"} ELSE {})
        \cup (IF res.errors[serial] # "unset" THEN {"error"} ELSE {})

\* The counts the summary prints, added up.
SummaryTotal(res) ==
    Cardinality({x \in Serials : res.data[x] = "payload"})
        + Len(res.no_data) + Len(res.not_found)
        + Cardinality({x \in Serials : res.errors[x] # "unset"})

PairwiseDistinct(list) ==
    \A i, j \in 1..Len(list) : list[i] = list[j] => i = j

\* C38: when an item script has gone through a list of pairwise-distinct
\* serials and printed its summary, every serial of the list is in exactly
\* one outcome class and the printed counts add up to the length of the list.
C38_Original ==
    (script \in ItemScripts /\ pc = "ended" /\ exit = "ok"
        /\ PairwiseDistinct(serials)) =>
        /\ \A i \in 1..Len(serials) :
               Cardinality(OutcomeClasses(results, serials[i])) = 1
        /\ SummaryTotal(results) = Len(serials)


====
